---- MODULE Spec2Model ----
(***************************************************************************)
(* Blind relay server of paper-hearts: the pairing state machine and the   *)
(* entry store-and-forward lifecycle, modelled at the granularity of the   *)
(* database statements each HTTP handler awaits.  A handler is a small     *)
(* process: its synchronous prefix together with its first database       *)
(* statement is one step, every later awaited statement (or transaction)   *)
(* is one further step.  Two handlers may be in flight at the same time.   *)
(***************************************************************************)
EXTENDS Integers, Sequences, FiniteSets, TLC

\* ---------------------------------------------------------------- bounds
MaxPairs == 2
MaxEntries == 3
MaxRoundTrips == 2
MaxAuthEntries == 1
MaxChans == 2
MaxFrames == 1
MaxThrottled == 2
MaxPushEntries == 2
MaxItems == 2

\* ------------------------------------------------------ program constants
TOKEN_TTL_MS == 600000
MAX_TIMESTAMP_AGE_MS == 300000
MAX_BLOBS_PER_DAY == 2
crypto_sign_PUBLICKEYBYTES == 32
BUNDLE_TTL_MS == 300000
THROTTLE_LIMIT == 60
THROTTLE_WINDOW_MS == 60000

\* ------------------------------------------------------------ input sets
Slots == {1, 2}
Keys == {"A", "B", "C"}
BadKeys == {"", "not-valid-base64!!!", "AAAA"}
KeyInputs == Keys \cup BadKeys
TokenInputs == 1..(MaxPairs + 1)
Null == "NULL"
NoTime == -1
NoPair == 0
Chans == 1..MaxChans

\* now: the server clock.  pairs, users, relay_tokens, entries: the tables
\* (entrySeq counts the entry ids handed out).  reqs: the handlers in flight.
\* out: the response sent by the latest step.  History, read by no handler:
\* members[p] is every key that was ever registered in pair p, accepted[id]
\* is the upload that was answered 201 with that id, as it was sent, joinLog
\* holds the outcome of every join that reached its transaction.
VARIABLES now, pairs, users, relay_tokens, entries, entrySeq, reqs, out,
          members, accepted, joinLog

\* The handoff service.  ws: the channels with their data (pairId, role),
\* the auth message each is verifying (pc, prefix, key, sig; they stay as
\* the channel last presented them) and the frames it has received.
\* waiting, collectors, pendingBundles: the process-local maps, by pair id.
VARIABLES ws, waiting, collectors, pendingBundles

\* The front door.  requestCounts: the process-local throttle map, by the
\* text of the X-Public-Key header.  History, read by no handler: served[k]
\* is the throttle window of k now running, its first request (since) and
\* how many of its requests the front door has handed to handleApi (n).
VARIABLES requestCounts, served

\* The push emitter.  vapid: whether the VAPID keys of the deployment are
\* set.  pushTasks: the calls of notifyPartner in flight, detached from the
\* upload that made them.  History, read by no handler: pushHist.sent is
\* every call of the push transport, pushHist.gone the users whose
\* subscription a 410 cleared and who have not subscribed since,
\* pushHist.muted the entries stored while their author's partner was gone.
VARIABLES vapid, pushTasks, pushHist

\* The client of one user.  outbox: the ids of the items in the IndexedDB
\* store "pending" (outboxSeq counts the ids handed out).  flushes: the calls of flushOutbox in flight, each with
\* its position (pc), the items its peekAll returned that it has not tried
\* yet (items; the first is the one in hand) and the handler slot that
\* holds its POST (slot).
VARIABLES outbox, outboxSeq, flushes

vars == <<now, pairs, users, relay_tokens, entries, entrySeq, reqs, out,
          members, accepted, joinLog, ws, waiting, collectors, pendingBundles,
          requestCounts, served, vapid, pushTasks, pushHist, outbox,
          outboxSeq, flushes>>

wsVars == <<ws, waiting, collectors, pendingBundles>>
doorVars == <<requestCounts, served>>
pushVars == <<vapid, pushTasks, pushHist>>
clientVars == <<outbox, outboxSeq, flushes>>

\* ------------------------------------------------------------ key format
\* sodium.from_base64(publicKey, ORIGINAL) throws on text that is not base64
DecodesAsBase64(k) == k # "not-valid-base64!!!"

\* byte length of the decoded key
KeyByteLength(k) == IF k \in Keys THEN 32 ELSE IF k = "AAAA" THEN 3 ELSE 0

\* the 400 message of the public-key validation of initiate and join, or "ok"
KeyError(k) ==
  IF k = "" THEN "publicKey is required"
  ELSE IF ~DecodesAsBase64(k) THEN "Invalid base64 public key"
  ELSE IF KeyByteLength(k) # crypto_sign_PUBLICKEYBYTES THEN "Invalid public key length"
  ELSE "ok"

\* ------------------------------------------------------- request headers
\* hdr: the Authorization header; tsOk: X-Timestamp parses as a date;
\* age: Date.now() - timestamp; sig: what the signature header holds: the
\* signature of the request ("valid"), 64 other bytes ("invalid"), base64 of
\* fewer than 64 bytes ("wronglength"), or text that is not base64
GoodCred == [hdr |-> "ok", tsOk |-> TRUE, age |-> 0, sig |-> "valid"]

Creds ==
  { GoodCred,
    [GoodCred EXCEPT !.hdr = "missing"],
    [GoodCred EXCEPT !.hdr = "badformat"],
    [GoodCred EXCEPT !.tsOk = FALSE],
    [GoodCred EXCEPT !.age = MAX_TIMESTAMP_AGE_MS],
    [GoodCred EXCEPT !.age = MAX_TIMESTAMP_AGE_MS + 1],
    [GoodCred EXCEPT !.age = 0 - (MAX_TIMESTAMP_AGE_MS + 1)],
    [GoodCred EXCEPT !.sig = "undecodable"],
    [GoodCred EXCEPT !.sig = "wronglength"],
    [GoodCred EXCEPT !.sig = "invalid"] }

\* sodium.crypto_sign_verify_detached throws a TypeError, which is not an
\* AuthError, when the signature is not crypto_sign_BYTES long
SignatureLengthError == "TypeError: invalid signature length"

\* the synchronous part of verifyRequest: the message of the error it
\* throws, or "ok"
HeaderError(cred, k) ==
  IF cred.hdr = "missing" \/ k = "" THEN "Missing auth headers"
  ELSE IF cred.hdr = "badformat" THEN "Invalid Authorization header format"
  ELSE IF ~cred.tsOk THEN "Invalid timestamp"
  ELSE IF cred.age > MAX_TIMESTAMP_AGE_MS THEN "Timestamp too old"
  ELSE IF ~DecodesAsBase64(k) \/ cred.sig = "undecodable"
    THEN "Invalid base64 in key or signature"
  ELSE IF KeyByteLength(k) # crypto_sign_PUBLICKEYBYTES THEN "Invalid public key length"
  ELSE IF cred.sig = "wronglength" THEN SignatureLengthError
  ELSE IF cred.sig # "valid" THEN "Invalid signature"
  ELSE "ok"

\* verifyRequest including its lookup of the user row
AuthError(cred, k) ==
  IF HeaderError(cred, k) # "ok" THEN HeaderError(cred, k)
  ELSE IF k \notin DOMAIN users THEN "Unknown public key"
  ELSE "ok"

\* the catch block of every authenticated handler: an AuthError becomes a
\* response with its status, anything else is thrown on to the catch of the
\* server's fetch, which answers 500
AuthFailure(cred, k) ==
  IF AuthError(cred, k) = SignatureLengthError
    THEN [status |-> 500, error |-> "Internal server error"]
    ELSE [status |-> 401, error |-> AuthError(cred, k)]

\* ------------------------------------------------------------- requests
\* A handler in flight: its inputs and the locals it keeps across awaits.
Blank ==
  [ op |-> "idle", pc |-> "idle", key |-> "", token |-> 0,
    dayId |-> "", payload |-> <<>>, since |-> "", ids |-> {}, sub |-> Null,
    pairId |-> NoPair, partner |-> "", initiator |-> "", result |-> <<>>,
    seen |-> 0 ]

\* The HTTP response sent by the latest step, if that step sent one:
\* the status, the error text and the fields of the JSON body.
\* of: the suspended handler that sent it, as it stood before its last step
\* (Blank when the handler answered in its first step).
NoResp ==
  [ status |-> 0, error |-> "", pairId |-> NoPair, relayToken |-> 0,
    partnerPublicKey |-> "", paired |-> FALSE, id |-> 0, deleted |-> 0,
    entries |-> <<>>, of |-> Blank ]

Http(st, e) == [NoResp EXCEPT !.status = st, !.error = e]

\* the response of the latest step is on its way to the client; the client
\* receives it before the server takes its next step
Quiet == out.status = 0

\* a new request is taken by the lowest idle slot
Free(r) ==
  /\ Quiet
  /\ reqs[r].pc = "idle"
  /\ \A r2 \in Slots : r2 < r => reqs[r2].pc # "idle"

\* the handler of slot r is suspended at p
At(r, p) == Quiet /\ reqs[r].pc = p

\* the handler of slot r returns the response resp
Finish(r, resp) ==
  /\ reqs' = [reqs EXCEPT ![r] = Blank]
  /\ out' = [resp EXCEPT !.of = reqs[r]]

\* the handler of slot r suspends on its next statement
Await(r, q) == reqs' = [reqs EXCEPT ![r] = q] /\ out' = NoResp

\* ------------------------------------------------------------- database
\* an upsert whose DO UPDATE sets only pair_id
UpsertUserKeepPush(u, k, p) ==
  [x \in (DOMAIN u) \cup {k} |->
     IF x = k /\ k \in DOMAIN u
       THEN [u[k] EXCEPT !.pair_id = p]
     ELSE IF x = k
       THEN [pair_id |-> p, push_endpoint |-> Null,
             push_p256dh |-> Null, push_auth |-> Null]
       ELSE u[x]]

\* INSERT INTO users ... ON CONFLICT (public_key) DO UPDATE SET pair_id,
\* push_endpoint = NULL, push_p256dh = NULL, push_auth = NULL
UpsertUser(u, k, p) ==
  [x \in (DOMAIN u) \cup {k} |->
     IF x = k
       THEN [pair_id |-> p, push_endpoint |-> Null,
             push_p256dh |-> Null, push_auth |-> Null]
       ELSE u[x]]

\* SELECT public_key FROM users WHERE pair_id = p AND public_key != k
\* evaluated on the users table u
Partners(u, p, k) == {x \in DOMAIN u : u[x].pair_id = p /\ x # k}

\* the calls of flushOutbox that overlap: on submit, on unlock and on the
\* flush-outbox message of the service worker
Flushes == {1, 2}
NoFlush == [pc |-> "idle", items |-> <<>>, slot |-> 0]

\* a channel that has not been upgraded yet; an upgraded channel starts with
\* data {pairId: null, role: null}
\* no call of the push transport yet
NoPushHist == [sent |-> {}, gone |-> {}, muted |-> {}]

NewChannel ==
  [ state |-> "new", pairId |-> NoPair, role |-> Null,
    pc |-> "idle", prefix |-> "", key |-> "", sig |-> "", frames |-> <<>> ]

\* the state after construction, with the VAPID keys set (v) or not, before
\* the connections chans are made
BootWith(v, chans) ==
  /\ now = 0
  /\ pairs = {}
  /\ users = [x \in {} |-> 0]
  /\ relay_tokens = [x \in {} |-> 0]
  /\ entries = [x \in {} |-> 0]
  /\ entrySeq = 0
  /\ reqs = [r \in Slots |-> Blank]
  /\ out = NoResp
  /\ members = [x \in {} |-> {}]
  /\ accepted = [x \in {} |-> 0]
  /\ joinLog = {}
  /\ ws = [ch \in chans |-> NewChannel]
  /\ waiting = [x \in {} |-> 0]
  /\ collectors = [x \in {} |-> 0]
  /\ pendingBundles = [x \in {} |-> 0]
  /\ requestCounts = [x \in {} |-> 0]
  /\ served = [x \in {} |-> 0]
  /\ vapid = v
  /\ pushTasks = {}
  /\ pushHist = NoPushHist
  /\ outbox = {}
  /\ outboxSeq = 0
  /\ flushes = [f \in Flushes |-> NoFlush]

Boot(v) == BootWith(v, Chans)

Init == Boot(FALSE)
InitPush == Boot(TRUE)

dbVars == <<pairs, users, relay_tokens, entries, entrySeq, members, accepted, joinLog>>

\* ------------------------------------------------------- handoff channels
Frame(t, b) == [type |-> t, body |-> b]

\* the channels and the three maps as one value, so that the statements of
\* a handler apply one after the other
WsNow ==
  [ ws |-> ws, waiting |-> waiting, collectors |-> collectors,
    pendingBundles |-> pendingBundles ]

WsBecomes(st) ==
  /\ ws' = st.ws
  /\ waiting' = st.waiting
  /\ collectors' = st.collectors
  /\ pendingBundles' = st.pendingBundles

MapDelete(f, x) == [y \in (DOMAIN f) \ {x} |-> f[y]]
MapSet(f, x, v) == [y \in (DOMAIN f) \cup {x} |-> IF y = x THEN v ELSE f[y]]

\* ws.send(frame): a frame sent on a channel that is no longer open is dropped
WsSend(st, ch, f) ==
  IF st.ws[ch].state = "open"
    THEN [st EXCEPT !.ws[ch].frames = Append(@, f)]
    ELSE st

\* a removal that deletes the pair's watcher and the pair's collector alike
removeWaitingAnyRole(st, ch) ==
  LET d == st.ws[ch]
  IN IF d.pairId = NoPair THEN st
     ELSE [st EXCEPT !.waiting = MapDelete(@, d.pairId),
                     !.collectors = MapDelete(@, d.pairId)]

\* removeWaiting(ws)
removeWaiting(st, ch) ==
  LET d == st.ws[ch]
  IN IF d.pairId = NoPair THEN st
     ELSE IF d.role = "watcher"
       THEN [st EXCEPT !.waiting = MapDelete(@, d.pairId)]
     ELSE IF d.role = "collector"
       THEN [st EXCEPT !.collectors = MapDelete(@, d.pairId)]
     ELSE st

\* the channel closes, by ws.close() or by the client: the close handler of
\* the server runs removeWaiting on it
WsClosed(st, ch) ==
  IF st.ws[ch].state # "open" THEN st
  ELSE removeWaiting([st EXCEPT !.ws[ch].state = "closed"], ch)

\* notifyPaired(pairId, partnerPublicKey)
notifyPaired(st, p, k) ==
  IF p \in DOMAIN st.waiting
    THEN WsSend(st, st.waiting[p], Frame("paired", k))
    ELSE st

\* -------------------------------------------------- POST /api/pairs/initiate
\* the handler as handleApi calls it; the front door keeps its own state
initiateRoute(r, k) ==
  /\ Free(r)
  /\ IF KeyError(k) # "ok"
       THEN /\ Finish(r, Http(400, KeyError(k)))
            /\ UNCHANGED <<now, dbVars, wsVars, pushVars, clientVars>>
       ELSE /\ Cardinality(pairs) < MaxPairs
            /\ LET p == Cardinality(pairs) + 1
                   t == Cardinality(DOMAIN relay_tokens) + 1
               IN /\ pairs' = pairs \cup {p}
                  /\ users' = UpsertUser(users, k, p)
                  /\ relay_tokens' =
                       [x \in (DOMAIN relay_tokens) \cup {t} |->
                          IF x = t
                            THEN [initiator_key |-> k, pair_id |-> p,
                                  expires_at |-> now + TOKEN_TTL_MS,
                                  consumed |-> FALSE]
                            ELSE relay_tokens[x]]
                  /\ members' = [x \in (DOMAIN members) \cup {p} |->
                                   IF x = p THEN {k} ELSE members[x]]
                  /\ Finish(r, [Http(201, "")
                                 EXCEPT !.pairId = p, !.relayToken = t])
            /\ UNCHANGED <<now, entries, entrySeq, accepted, joinLog, wsVars, pushVars, clientVars>>

\* a request that the front door lets through without counting it
initiate(r, k) == initiateRoute(r, k) /\ UNCHANGED doorVars

\* ------------------------------------------------------ POST /api/pairs/join
\* validation, the SELECT of the token row and the advisory preconditions
joinLookup(r, k, t) ==
  /\ Free(r)
  /\ LET q == [Blank EXCEPT !.op = "join", !.key = k, !.token = t]
         fail(st, e) == Finish(r, Http(st, e))
     IN IF k = "" THEN fail(400, "publicKey is required")
        ELSE IF t = 0 THEN fail(400, "relayToken is required")
        ELSE IF KeyError(k) # "ok" THEN fail(400, KeyError(k))
        ELSE IF t \notin DOMAIN relay_tokens
          THEN fail(404, "Invalid relay paring code")
        ELSE IF relay_tokens[t].consumed
          THEN fail(410, "Pairing code already consumed")
        ELSE IF relay_tokens[t].expires_at < now
          THEN fail(410, "This pairing code is too old. Generate a new one")
        ELSE IF k = relay_tokens[t].initiator_key
          THEN fail(400, "Cannot join your own pair")
        ELSE Await(r, [q EXCEPT !.pc = "join_tx",
                                !.pairId = relay_tokens[t].pair_id,
                                !.initiator = relay_tokens[t].initiator_key])
  /\ UNCHANGED <<now, dbVars, wsVars, doorVars, clientVars, pushVars>>

\* an UPDATE without the NOT consumed test always returns the row
ConsumeWithoutTest(t) == TRUE

\* UPDATE relay_tokens SET consumed = true WHERE token = t AND NOT consumed
\* RETURNING token: TRUE when a row came back
ConsumeReturnsRow(t) == ~relay_tokens[t].consumed

\* a transaction that upserts the follower before it looks at the UPDATE
JoinUpsertFirst(u, q, won) == UpsertUser(u, q.key, q.pairId)

\* if (consumed.length === 0) return null; otherwise the upsert of the
\* follower: the users table after the transaction of the join q
JoinUpsert(u, q, won) == IF won THEN UpsertUser(u, q.key, q.pairId) ELSE u

\* the transaction: consume the token, then upsert the follower; on success
\* the pair's watcher is notified with the follower's key
joinTx(r) ==
  /\ At(r, "join_tx")
  /\ LET q == reqs[r]
     IN IF ~ConsumeReturnsRow(q.token)
          THEN /\ Finish(r, Http(410, "Token already consumed"))
               /\ joinLog' = joinLog \cup
                    {[token |-> q.token, key |-> q.key, status |-> 410]}
               /\ users' = JoinUpsert(users, q, FALSE)
               /\ UNCHANGED <<now, pairs, relay_tokens, entries, entrySeq,
                              members, accepted, wsVars, doorVars, clientVars, pushVars>>
          ELSE /\ relay_tokens' = [relay_tokens EXCEPT ![q.token].consumed = TRUE]
               /\ users' = JoinUpsert(users, q, TRUE)
               /\ members' = [members EXCEPT ![q.pairId] = @ \cup {q.key}]
               /\ joinLog' = joinLog \cup
                    {[token |-> q.token, key |-> q.key, status |-> 200]}
               /\ Finish(r, [Http(200, "")
                              EXCEPT !.pairId = q.pairId,
                                     !.partnerPublicKey = q.initiator])
               /\ WsBecomes(notifyPaired(WsNow, q.pairId, q.key))
               /\ UNCHANGED <<now, pairs, entries, entrySeq, accepted, doorVars, clientVars, pushVars>>

\* -------------------------------------------------- GET /api/pairs/status
pairStatusRoute(r, k, cred) ==
  /\ Free(r)
  /\ IF AuthError(cred, k) # "ok"
       THEN Finish(r, Http(AuthFailure(cred, k).status, AuthFailure(cred, k).error))
       ELSE Await(r, [Blank EXCEPT !.op = "status", !.pc = "status_partners",
                                   !.key = k, !.pairId = users[k].pair_id])
  /\ UNCHANGED <<now, dbVars, wsVars, pushVars, clientVars>>

\* the handler alone, for a key that is below the cap of the throttle
pairStatusAuth(r, k, cred) == pairStatusRoute(r, k, cred) /\ UNCHANGED doorVars

\* what pairStatus answers for key k resolved to pair p, on the users table u
\* (partners[0] of a SELECT without ORDER BY: any row of the result)
StatusBodies(u, p, k) ==
  IF Partners(u, p, k) = {}
    THEN {[Http(200, "") EXCEPT !.paired = FALSE]}
    ELSE {[Http(200, "") EXCEPT !.paired = TRUE, !.partnerPublicKey = x] :
             x \in Partners(u, p, k)}

pairStatusPartners(r) ==
  /\ At(r, "status_partners")
  /\ \E b \in StatusBodies(users, reqs[r].pairId, reqs[r].key) : Finish(r, b)
  /\ UNCHANGED <<now, dbVars, wsVars, doorVars, clientVars, pushVars>>

\* -------------------------------------------------- DELETE /api/account
deleteAccountAuth(r, k, cred) ==
  /\ Free(r)
  /\ IF AuthError(cred, k) # "ok"
       THEN Finish(r, Http(AuthFailure(cred, k).status, AuthFailure(cred, k).error))
       ELSE Await(r, [Blank EXCEPT !.op = "delete", !.pc = "delete_entries", !.key = k])
  /\ UNCHANGED <<now, dbVars, wsVars, doorVars, clientVars, pushVars>>

\* DELETE FROM entries WHERE author_key = k; ids keeps, as history, the
\* rows the statement deleted
deleteAccountEntries(r) ==
  /\ At(r, "delete_entries")
  /\ entries' = [x \in {y \in DOMAIN entries : entries[y].author_key # reqs[r].key}
                   |-> entries[x]]
  /\ Await(r, [reqs[r] EXCEPT !.pc = "delete_user",
                              !.ids = {y \in DOMAIN entries :
                                         entries[y].author_key = reqs[r].key}])
  /\ UNCHANGED <<now, pairs, users, relay_tokens, entrySeq, members, accepted, joinLog, wsVars, doorVars, clientVars, pushVars>>

\* a deletion that leaves the row in place
DeleteUserKeepsRow(u, k) == u

\* DELETE FROM users WHERE public_key = k, on the users table u
DeleteUser(u, k) == [x \in (DOMAIN u) \ {k} |-> u[x]]

\* DELETE FROM users WHERE public_key = k; entries.author_key references
\* users(public_key), so a remaining entry of k makes the statement fail
deleteAccountUser(r) ==
  /\ At(r, "delete_user")
  /\ LET k == reqs[r].key
     IN IF \E x \in DOMAIN entries : entries[x].author_key = k
          THEN /\ Finish(r, Http(500, "Internal server error"))
               /\ UNCHANGED users
          ELSE /\ users' = DeleteUser(users, k)
               /\ Finish(r, Http(204, ""))
  /\ UNCHANGED <<now, pairs, relay_tokens, entries, entrySeq, members, accepted, joinLog, wsVars, doorVars, clientVars, pushVars>>

\* ------------------------------------------------------------ push emitter
\* a call of notifyPartner(authorKey, pairId) made for the entry id: it is
\* suspended on its SELECT, on the push transport or on its UPDATE, and
\* holds the row of the partner it chose
PushTask(id, k, p) ==
  [ entry |-> id, author |-> k, pairId |-> p, pc |-> "select",
    partner |-> "", endpoint |-> Null ]

\* notifyPartner up to its first await: it returns at once without VAPID keys
notifyPartner(tasks, id, k, p) ==
  IF vapid THEN tasks \cup {PushTask(id, k, p)} ELSE tasks

\* history: an entry stored while a user is gone is muted for that user
Muted(h, id) == [h EXCEPT !.muted = @ \cup {<<id, x>> : x \in h.gone}]

\* an upload that waits for notifyPartner before it answers
StoredAfterPush(r, id) == Await(r, [reqs[r] EXCEPT !.pc = "create_notify"])

\* createEntry after its INSERT: notifyPartner(...).then().catch() is not
\* awaited, the 201 is returned in the same turn
Stored(r, id) == Finish(r, [Http(201, "") EXCEPT !.id = id])

\* a SELECT of the partners that does not test push_endpoint
PushRowsWithoutTest(u, p, k) == {x \in DOMAIN u : u[x].pair_id = p /\ x # k}

\* SELECT ... FROM users WHERE pair_id = p AND public_key != k
\* AND push_endpoint IS NOT NULL
PushRows(u, p, k) ==
  {x \in DOMAIN u : u[x].pair_id = p /\ x # k /\ u[x].push_endpoint # Null}

\* the SELECT returns, or fails (ok = FALSE: the rejection reaches the
\* catch of createEntry, which logs it); partners[0] is any row
notifyPartnerSelect(t, ok) ==
  /\ Quiet
  /\ t \in pushTasks /\ t.pc = "select"
  /\ IF ~ok \/ PushRows(users, t.pairId, t.author) = {}
       THEN pushTasks' = pushTasks \ {t}
       ELSE \E x \in PushRows(users, t.pairId, t.author) :
              pushTasks' = (pushTasks \ {t}) \cup
                {[t EXCEPT !.pc = "send", !.partner = x,
                           !.endpoint = users[x].push_endpoint]}
  /\ UNCHANGED <<now, dbVars, reqs, out, wsVars, doorVars, clientVars, vapid, pushHist>>

\* what webpush.sendNotification does: it resolves, rejects with an error
\* that is not 410, or rejects with statusCode 410
PushAnswers == {"sent", "failed", "gone"}

notifyPartnerSend(t, answer) ==
  /\ Quiet
  /\ t \in pushTasks /\ t.pc = "send"
  /\ pushHist' = [pushHist EXCEPT !.sent = @ \cup
                    {[entry |-> t.entry, to |-> t.partner,
                      endpoint |-> t.endpoint, answer |-> answer]}]
  /\ pushTasks' = IF answer = "gone"
                    THEN (pushTasks \ {t}) \cup {[t EXCEPT !.pc = "clear"]}
                    ELSE pushTasks \ {t}
  /\ UNCHANGED <<now, dbVars, reqs, out, wsVars, doorVars, clientVars, vapid>>

\* UPDATE users SET push_endpoint = NULL, push_p256dh = NULL,
\* push_auth = NULL WHERE public_key = k
ClearSubscription(u, k) ==
  [x \in DOMAIN u |->
     IF x = k THEN [u[x] EXCEPT !.push_endpoint = Null, !.push_p256dh = Null,
                                !.push_auth = Null]
     ELSE u[x]]

\* the UPDATE after a 410 returns, or fails (ok = FALSE)
notifyPartnerClear(t, ok) ==
  /\ Quiet
  /\ t \in pushTasks /\ t.pc = "clear"
  /\ pushTasks' = pushTasks \ {t}
  /\ IF ok
       THEN /\ users' = ClearSubscription(users, t.partner)
            /\ pushHist' = [pushHist EXCEPT !.gone = @ \cup {t.partner}]
       ELSE UNCHANGED <<users, pushHist>>
  /\ UNCHANGED <<now, pairs, relay_tokens, entries, entrySeq, members, accepted,
                 joinLog, reqs, out, wsVars, doorVars, clientVars, vapid>>

\* -------------------------------------------------- POST /api/push/subscribe
Subscriptions == {[endpoint |-> "https://push/1", p256dh |-> "p1", auth |-> "a1"]}
BadSubscription == [endpoint |-> "", p256dh |-> "p1", auth |-> "a1"]
\* the subscription of a browser that subscribes anew
SecondSubscription == [endpoint |-> "https://push/2", p256dh |-> "p2", auth |-> "a2"]

\* history: k has a subscription again
Subscribed(h, k) ==
  [h EXCEPT !.gone = @ \ {k}, !.muted = {m \in @ : m[2] # k}]

subscribePushAuth(r, k, cred, s) ==
  /\ Free(r)
  /\ IF AuthError(cred, k) # "ok"
       THEN Finish(r, Http(AuthFailure(cred, k).status, AuthFailure(cred, k).error))
       ELSE IF s.endpoint = "" \/ s.p256dh = "" \/ s.auth = ""
         THEN Finish(r, Http(400, "Invalid push subscription"))
         ELSE Await(r, [Blank EXCEPT !.op = "subscribe", !.pc = "subscribe_update",
                                     !.key = k, !.sub = s.endpoint])
  /\ UNCHANGED <<now, dbVars, wsVars, doorVars, clientVars, pushVars>>

\* UPDATE users SET push_endpoint, push_p256dh, push_auth WHERE public_key = k
subscribePushUpdate(r) ==
  /\ At(r, "subscribe_update")
  /\ LET k == reqs[r].key
         s == CHOOSE x \in Subscriptions \cup {SecondSubscription} :
                x.endpoint = reqs[r].sub
     IN /\ users' = [x \in DOMAIN users |->
                       IF x = k
                         THEN [users[x] EXCEPT !.push_endpoint = s.endpoint,
                                               !.push_p256dh = s.p256dh,
                                               !.push_auth = s.auth]
                         ELSE users[x]]
        /\ pushHist' = Subscribed(pushHist, k)
        /\ Finish(r, Http(200, ""))
  /\ UNCHANGED <<now, pairs, relay_tokens, entries, entrySeq, members, accepted,
                 joinLog, wsVars, doorVars, clientVars, vapid, pushTasks>>

\* ------------------------------------------------------ payload encoding
\* Transport payloads are base64 text, written here as a tuple of characters.
B64Alphabet ==
  << "A","B","C","D","E","F","G","H","I","J","K","L","M","N","O","P",
     "Q","R","S","T","U","V","W","X","Y","Z","a","b","c","d","e","f",
     "g","h","i","j","k","l","m","n","o","p","q","r","s","t","u","v",
     "w","x","y","z","0","1","2","3","4","5","6","7","8","9","+","/" >>

B64Value(c) == (CHOOSE i \in 1..64 : B64Alphabet[i] = c) - 1

\* the characters before the first padding character
B64DataLen(s) ==
  IF \E i \in 1..Len(s) : s[i] = "="
    THEN (CHOOSE i \in 1..Len(s) : s[i] = "=" /\ \A j \in 1..(i - 1) : s[j] # "=") - 1
    ELSE Len(s)

RECURSIVE B64DecodeValues(_)
B64DecodeValues(v) ==
  IF Len(v) < 2 THEN <<>>
  ELSE LET b0 == v[1] * 4 + v[2] \div 16
       IN IF Len(v) = 2 THEN <<b0>>
          ELSE LET b1 == (v[2] % 16) * 16 + v[3] \div 4
               IN IF Len(v) = 3 THEN <<b0, b1>>
                  ELSE <<b0, b1, (v[3] % 4) * 64 + v[4]>>
                         \o B64DecodeValues(SubSeq(v, 5, Len(v)))

\* Buffer.from(payload, "base64"): padding is optional and the unused low
\* bits of the last character are dropped
Base64Decode(s) == B64DecodeValues([i \in 1..B64DataLen(s) |-> B64Value(s[i])])

RECURSIVE Base64Encode(_)
\* Buffer.from(bytes).toString("base64")
Base64Encode(b) ==
  IF Len(b) = 0 THEN <<>>
  ELSE LET c0 == B64Alphabet[b[1] \div 4 + 1]
       IN IF Len(b) = 1
            THEN <<c0, B64Alphabet[(b[1] % 4) * 16 + 1], "=", "=">>
            ELSE LET c1 == B64Alphabet[(b[1] % 4) * 16 + b[2] \div 16 + 1]
                 IN IF Len(b) = 2
                      THEN <<c0, c1, B64Alphabet[(b[2] % 16) * 4 + 1], "=">>
                      ELSE <<c0, c1,
                             B64Alphabet[(b[2] % 16) * 4 + b[3] \div 64 + 1],
                             B64Alphabet[(b[3] % 64) + 1]>>
                             \o Base64Encode(SubSeq(b, 4, Len(b)))

\* "WA==" and "WQ==" are the canonical texts of the bytes X and Y; "WA" lacks
\* its padding and "WB==" has stray low bits: both decode to X
PayloadInputs ==
  { <<>>, <<"W","A","=","=">>, <<"W","Q","=","=">>, <<"W","A">>, <<"W","B","=","=">> }

\* ------------------------------------------------------------------ dayId
DayInputs == {"", "26-01-01", "2026-13-01", "2026-02-15", "2026-02-16"}
SinceInputs == {"", "2026-13-01", "2026-02-16"}

\* /^\d{4}-\d{2}-\d{2}$/.test(dayId)
DayIdGrammar(d) == d \in {"1970-01-01", "2026-13-01", "2026-02-15", "2026-02-16"}

\* whether the DATE column type accepts the text
IsDate(d) == d \in {"1970-01-01", "2026-02-15", "2026-02-16"}

\* the DATE value of a text: days since 1970-01-01
ParseDate(d) ==
  CASE d = "1970-01-01" -> 0
    [] d = "2026-02-15" -> 20499
    [] d = "2026-02-16" -> 20500

\* a rendering in a zone west of UTC: the day before
FormatDateLocal(n) ==
  CASE n = 0 -> "1969-12-31"
    [] n = 20499 -> "2026-02-14"
    [] n = 20500 -> "2026-02-15"

\* new Date(day_id).toISOString().slice(0, 10)
FormatDate(n) ==
  CASE n = 0 -> "1970-01-01"
    [] n = 20499 -> "2026-02-15"
    [] n = 20500 -> "2026-02-16"

\* ------------------------------------------------------ POST /api/entries
\* createEntry handlers between their lookup and their INSERT
Uploading == {r \in Slots : reqs[r].pc \in {"create_count", "create_insert"}}

\* the number of uploads of key k for the date d that were answered 201
Accepted(k, d) ==
  Cardinality({x \in DOMAIN accepted :
                 accepted[x].author = k /\ ParseDate(accepted[x].dayId) = d})

createEntryRoute(r, k, cred, d, pl) ==
  /\ Free(r)
  /\ entrySeq + Cardinality(Uploading) < MaxEntries
  /\ IF AuthError(cred, k) # "ok"
       THEN Finish(r, Http(AuthFailure(cred, k).status, AuthFailure(cred, k).error))
     ELSE IF d = "" THEN Finish(r, Http(400, "dayId is required"))
     ELSE IF pl = <<>> THEN Finish(r, Http(400, "payload is required"))
     ELSE IF ~DayIdGrammar(d)
       THEN Finish(r, Http(400, "dayId must be YYYY-MM-DD"))
     ELSE Await(r, [Blank EXCEPT !.op = "upload", !.pc = "create_count", !.key = k,
                                 !.pairId = users[k].pair_id, !.dayId = d,
                                 !.payload = pl,
                                 !.seen = IF IsDate(d) THEN Accepted(k, ParseDate(d)) ELSE 0])
  /\ UNCHANGED <<now, dbVars, wsVars, doorVars, pushVars>>

\* the request of a client whose state the model does not follow
createEntryAuth(r, k, cred, d, pl) ==
  createEntryRoute(r, k, cred, d, pl) /\ UNCHANGED clientVars

\* SELECT COUNT(*) FROM entries WHERE author_key = k AND day_id = d
CountEntries(k, d) ==
  Cardinality({x \in DOMAIN entries :
                 entries[x].author_key = k /\ entries[x].day_id = d})

\* a handler that never refuses on the count
OverLimitNever(count) == FALSE

\* the rate-limit test on the count
OverLimit(count) == count >= MAX_BLOBS_PER_DAY

createEntryCount(r) ==
  /\ At(r, "create_count")
  /\ LET q == reqs[r]
     IN IF ~IsDate(q.dayId)
          THEN Finish(r, Http(500, "Internal server error"))
        ELSE IF OverLimit(CountEntries(q.key, ParseDate(q.dayId)))
          THEN Finish(r, Http(429, "Rate limit: max 2 entries per day"))
        ELSE Await(r, [q EXCEPT !.pc = "create_insert"])
  /\ UNCHANGED <<now, dbVars, wsVars, doorVars, clientVars, pushVars>>

\* INSERT INTO entries (author_key, pair_id, day_id, payload) RETURNING id;
\* author_key references users(public_key)
createEntryInsert(r) ==
  /\ At(r, "create_insert")
  /\ LET q == reqs[r]
         id == entrySeq + 1
         d == ParseDate(q.dayId)
     IN IF q.key \notin DOMAIN users
          THEN /\ Finish(r, Http(500, "Internal server error"))
               /\ UNCHANGED <<entries, entrySeq, accepted, pushTasks, pushHist>>
          ELSE /\ entries' =
                    [x \in (DOMAIN entries) \cup {id} |->
                       IF x = id
                         THEN [author_key |-> q.key, pair_id |-> q.pairId,
                               day_id |-> d, payload |-> Base64Decode(q.payload),
                               fetched_at |-> NoTime, acked_at |-> NoTime]
                         ELSE entries[x]]
               /\ entrySeq' = id
               /\ accepted' = [x \in (DOMAIN accepted) \cup {id} |->
                                 IF x = id
                                   THEN [author |-> q.key, dayId |-> q.dayId,
                                         payload |-> q.payload]
                                   ELSE accepted[x]]
               /\ pushTasks' = notifyPartner(pushTasks, id, q.key, q.pairId)
               /\ pushHist' = Muted(pushHist, id)
               /\ Stored(r, id)
  /\ UNCHANGED <<now, pairs, users, relay_tokens, members, joinLog, wsVars, doorVars, clientVars, vapid>>

\* ------------------------------------------------------- GET /api/entries
getEntriesAuth(r, k, cred, since) ==
  /\ Free(r)
  /\ IF AuthError(cred, k) # "ok"
       THEN Finish(r, Http(AuthFailure(cred, k).status, AuthFailure(cred, k).error))
       ELSE Await(r, [Blank EXCEPT !.op = "fetch", !.pc = "get_partners", !.key = k,
                                   !.pairId = users[k].pair_id,
                                   !.since = IF since = "" THEN "1970-01-01" ELSE since])
  /\ UNCHANGED <<now, dbVars, wsVars, doorVars, clientVars, pushVars>>

getEntriesPartners(r) ==
  /\ At(r, "get_partners")
  /\ LET q == reqs[r]
     IN IF Partners(users, q.pairId, q.key) = {}
          THEN Finish(r, Http(200, ""))
          ELSE \E x \in Partners(users, q.pairId, q.key) :
                 Await(r, [q EXCEPT !.pc = "get_select", !.partner = x])
  /\ UNCHANGED <<now, dbVars, wsVars, doorVars, clientVars, pushVars>>

\* a SELECT without the author_key predicate
UndeliveredAnyAuthor(p, partner, since) ==
  {x \in DOMAIN entries :
     /\ entries[x].pair_id = p
     /\ entries[x].day_id >= since
     /\ entries[x].acked_at = NoTime}

\* SELECT id, day_id, payload, fetched_at FROM entries WHERE pair_id = p AND
\* author_key = partner AND day_id >= since AND acked_at IS NULL
Undelivered(p, partner, since) ==
  {x \in DOMAIN entries :
     /\ entries[x].pair_id = p
     /\ entries[x].author_key = partner
     /\ entries[x].day_id >= since
     /\ entries[x].acked_at = NoTime}

\* ORDER BY day_id ASC: every order of the ids that is ascending in day_id
Ordered(S) ==
  {s \in [1..Cardinality(S) -> S] :
     /\ \A i, j \in 1..Cardinality(S) : i # j => s[i] # s[j]
     /\ \A i, j \in 1..Cardinality(S) :
          i < j => entries[s[i]].day_id <= entries[s[j]].day_id}

\* one element of the response: {id, dayId, payload}
EntryJson(x) ==
  [id |-> x, dayId |-> FormatDate(entries[x].day_id),
   payload |-> Base64Encode(entries[x].payload)]

getEntriesSelect(r) ==
  /\ At(r, "get_select")
  /\ LET q == reqs[r]
     IN IF ~IsDate(q.since)
          THEN Finish(r, Http(500, "Internal server error"))
          ELSE LET S == Undelivered(q.pairId, q.partner, ParseDate(q.since))
                   unfetchedIds == {x \in S : entries[x].fetched_at = NoTime}
               IN \E s \in Ordered(S) :
                    LET result == [i \in 1..Len(s) |-> EntryJson(s[i])]
                    IN IF unfetchedIds = {}
                         THEN Finish(r, [Http(200, "") EXCEPT !.entries = result])
                         ELSE Await(r, [q EXCEPT !.pc = "get_mark",
                                                 !.ids = unfetchedIds,
                                                 !.result = result])
  /\ UNCHANGED <<now, dbVars, wsVars, doorVars, clientVars, pushVars>>

\* UPDATE entries SET fetched_at = now() WHERE id = ANY(unfetchedIds)
getEntriesMark(r) ==
  /\ At(r, "get_mark")
  /\ LET q == reqs[r]
     IN /\ entries' = [x \in DOMAIN entries |->
                         IF x \in q.ids THEN [entries[x] EXCEPT !.fetched_at = now]
                         ELSE entries[x]]
        /\ Finish(r, [Http(200, "") EXCEPT !.entries = q.result])
  /\ UNCHANGED <<now, pairs, users, relay_tokens, entrySeq, members, accepted, joinLog, wsVars, doorVars, clientVars, pushVars>>

\* --------------------------------------------------- POST /api/entries/ack
AckInputs ==
  {[isArray |-> TRUE, ids |-> S] : S \in SUBSET (1..MaxEntries)}
    \cup {[isArray |-> FALSE, ids |-> {}]}

ackEntriesAuth(r, k, cred, body) ==
  /\ Free(r)
  /\ IF AuthError(cred, k) # "ok"
       THEN Finish(r, Http(AuthFailure(cred, k).status, AuthFailure(cred, k).error))
     ELSE IF ~body.isArray \/ body.ids = {}
       THEN Finish(r, Http(400, "entryIds array is required"))
     ELSE Await(r, [Blank EXCEPT !.op = "ack", !.pc = "ack_partners", !.key = k,
                                 !.pairId = users[k].pair_id, !.ids = body.ids])
  /\ UNCHANGED <<now, dbVars, wsVars, doorVars, clientVars, pushVars>>

ackEntriesPartners(r) ==
  /\ At(r, "ack_partners")
  /\ LET q == reqs[r]
     IN IF Partners(users, q.pairId, q.key) = {}
          THEN Finish(r, Http(400, "No partner found"))
          ELSE \E x \in Partners(users, q.pairId, q.key) :
                 Await(r, [q EXCEPT !.pc = "ack_delete", !.partner = x])
  /\ UNCHANGED <<now, dbVars, wsVars, doorVars, clientVars, pushVars>>

\* a DELETE without the author_key predicate
AckMatchesAnyAuthor(ids, p, partner) ==
  {x \in DOMAIN entries : x \in ids /\ entries[x].pair_id = p}

\* a DELETE without the pair_id predicate
AckMatchesAnyPair(ids, p, partner) ==
  {x \in DOMAIN entries : x \in ids /\ entries[x].author_key = partner}

\* DELETE FROM entries WHERE id = ANY(ids) AND pair_id = p AND
\* author_key = partner RETURNING id: the ids of the rows it deletes
AckMatches(ids, p, partner) ==
  {x \in DOMAIN entries :
     x \in ids /\ entries[x].pair_id = p /\ entries[x].author_key = partner}

ackEntriesDelete(r) ==
  /\ At(r, "ack_delete")
  /\ LET q == reqs[r]
         deleted == AckMatches(q.ids, q.pairId, q.partner)
     IN /\ entries' = [x \in (DOMAIN entries) \ deleted |-> entries[x]]
        /\ Finish(r, [Http(200, "") EXCEPT !.deleted = Cardinality(deleted)])
  /\ UNCHANGED <<now, pairs, users, relay_tokens, entrySeq, members, accepted, joinLog, wsVars, doorVars, clientVars, pushVars>>

\* ------------------------------------------------------------------ clock
\* the wall clock advances to the next instant at which a comparison of the
\* code changes its outcome
Instants == {TOKEN_TTL_MS, TOKEN_TTL_MS + 1}

Tick ==
  /\ Quiet
  /\ \E t \in Instants : t > now /\ now' = t
  /\ out' = NoResp
  /\ UNCHANGED <<dbVars, reqs, wsVars, doorVars, clientVars, pushVars>>

\* the client receives the response
Deliver ==
  /\ ~Quiet
  /\ out' = NoResp
  /\ UNCHANGED <<now, dbVars, reqs, wsVars, doorVars, clientVars, pushVars>>

\* ------------------------------------------------- handoff: /api/pairs/watch
\* An auth message: the key, the timestamp (tsOk: it parses as a number) and
\* what the signature is: a signature over the WATCH payload, one over the
\* COLLECT payload, 64 other bytes, or text that does not decode.
WsGoodMsg(k, prefix) == [publicKey |-> k, tsOk |-> TRUE, age |-> 0, sig |-> prefix]

WsMsgs ==
  {WsGoodMsg(k, prefix) : k \in {"A", "B"}, prefix \in {"WATCH", "COLLECT"}}
    \cup { [WsGoodMsg("A", "WATCH") EXCEPT !.tsOk = FALSE],
           [WsGoodMsg("A", "WATCH") EXCEPT !.age = MAX_TIMESTAMP_AGE_MS + 1],
           [WsGoodMsg("A", "COLLECT") EXCEPT !.age = 0 - (MAX_TIMESTAMP_AGE_MS + 1)],
           [WsGoodMsg("A", "WATCH") EXCEPT !.sig = "invalid"],
           [WsGoodMsg("A", "COLLECT") EXCEPT !.sig = "undecodable"] }

BundlePayloads == {"bundle-1", "bundle-2"}

\* a verification that accepts a signature made for either role
WsSignatureValidAnyPrefix(msg, prefix) == msg.sig \in {"WATCH", "COLLECT"}

\* crypto_sign_verify_detached over `${prefix}\n${publicKey}\n${timestamp}`
WsSignatureValid(msg, prefix) == msg.sig = prefix

\* the synchronous part of verifyWsAuth: the message of the error frame, or
\* "ok"
WsAuthError(msg, prefix) ==
  IF ~msg.tsOk \/ msg.age > MAX_TIMESTAMP_AGE_MS THEN "Timestamp invalid or expired"
  ELSE IF ~DecodesAsBase64(msg.publicKey) \/ msg.sig = "undecodable"
          \/ KeyByteLength(msg.publicKey) # crypto_sign_PUBLICKEYBYTES
    THEN "Invalid key or signature format"
  ELSE IF ~WsSignatureValid(msg, prefix) THEN "Invalid signature"
  ELSE "ok"

\* the upgrade of a connection: the lowest unused channel opens
WsUpgrade(ch) ==
  /\ Quiet
  /\ ws[ch].state = "new"
  /\ \A c2 \in Chans : c2 < ch => ws[c2].state # "new"
  /\ ws' = [ws EXCEPT ![ch].state = "open"]
  /\ UNCHANGED <<now, dbVars, reqs, out, waiting, collectors, pendingBundles, doorVars, clientVars, pushVars>>

\* verifyWsAuth(ws, msg, prefix) up to its lookup of the user row; handleWsAuth
\* calls it with WATCH, handleWsCollect with COLLECT
verifyWsAuth(ch, msg, prefix) ==
  /\ Quiet
  /\ ws[ch].state = "open"
  /\ ws[ch].pc = "idle"
  /\ Len(ws[ch].frames) < MaxFrames
  /\ IF WsAuthError(msg, prefix) # "ok"
       THEN WsBecomes(WsClosed(
              WsSend(WsNow, ch, Frame("error", WsAuthError(msg, prefix))), ch))
       ELSE /\ ws' = [ws EXCEPT ![ch].pc = "lookup", ![ch].prefix = prefix,
                                ![ch].key = msg.publicKey, ![ch].sig = msg.sig]
            /\ UNCHANGED <<waiting, collectors, pendingBundles>>
  /\ UNCHANGED <<now, dbVars, reqs, out, doorVars, clientVars, pushVars>>

\* the end of verifyWsAuth for a key without a user row
WsUnknownUser(ch) ==
  WsClosed(WsSend([WsNow EXCEPT !.ws[ch].pc = "idle"],
                  ch, Frame("error", "Unknown user")), ch)

\* handleWsAuth after the lookup: the channel becomes the pair's watcher
handleWsAuth(ch) ==
  /\ Quiet
  /\ ws[ch].pc = "lookup"
  /\ ws[ch].prefix = "WATCH"
  /\ LET k == ws[ch].key
     IN IF k \notin DOMAIN users
          THEN WsBecomes(WsUnknownUser(ch))
          ELSE LET p == users[k].pair_id
                   st1 == [WsNow EXCEPT !.ws[ch].pc = "idle",
                                        !.ws[ch].pairId = p,
                                        !.ws[ch].role = "watcher",
                                        !.waiting = MapSet(@, p, ch)]
               IN WsBecomes(WsSend(st1, ch, Frame("ready", "")))
  /\ UNCHANGED <<now, dbVars, reqs, out, doorVars, clientVars, pushVars>>

\* a test that takes every buffered bundle to be fresh
PendingFreshAlways(st, p) == p \in DOMAIN st.pendingBundles

\* pending && Date.now() <= pending.expiresAt
PendingFresh(st, p) ==
  /\ p \in DOMAIN st.pendingBundles
  /\ now <= st.pendingBundles[p].expiresAt

\* a delivery that leaves the buffered bundle where it is
TakePendingKeeps(st, p) == st

\* pendingBundles.delete(pairId)
TakePending(st, p) == [st EXCEPT !.pendingBundles = MapDelete(@, p)]

\* handleWsCollect after the lookup: a fresh buffered bundle is delivered
\* and the channel closed, otherwise the channel becomes the pair's collector
handleWsCollect(ch) ==
  /\ Quiet
  /\ ws[ch].pc = "lookup"
  /\ ws[ch].prefix = "COLLECT"
  /\ LET k == ws[ch].key
     IN IF k \notin DOMAIN users
          THEN WsBecomes(WsUnknownUser(ch))
          ELSE LET p == users[k].pair_id
                   st1 == [WsNow EXCEPT !.ws[ch].pc = "idle",
                                        !.ws[ch].pairId = p,
                                        !.ws[ch].role = "collector"]
               IN IF PendingFresh(st1, p)
                    THEN LET st2 == TakePending(st1, p)
                             st3 == WsSend(st2, ch,
                                           Frame("bundle", st1.pendingBundles[p].payload))
                         IN WsBecomes(WsClosed(st3, ch))
                    ELSE LET st2 == [st1 EXCEPT !.collectors = MapSet(@, p, ch)]
                         IN WsBecomes(WsSend(st2, ch, Frame("ready", "")))
  /\ UNCHANGED <<now, dbVars, reqs, out, doorVars, clientVars, pushVars>>

\* handleWsBundle(ws, payload); at is history: when the bundle was buffered
handleWsBundle(ch, payload) ==
  /\ Quiet
  /\ ws[ch].state = "open"
  /\ ws[ch].pairId # NoPair
  /\ LET p == ws[ch].pairId
         st1 == IF p \in DOMAIN collectors
                  THEN LET c == collectors[p]
                           sent == WsSend(WsNow, c, Frame("bundle", payload))
                       IN [WsClosed(sent, c) EXCEPT !.collectors = MapDelete(@, p)]
                  ELSE [WsNow EXCEPT !.pendingBundles =
                          MapSet(@, p, [payload |-> payload,
                                        expiresAt |-> now + BUNDLE_TTL_MS,
                                        at |-> now])]
         st2 == [st1 EXCEPT !.waiting = MapDelete(@, p)]
     IN WsBecomes(WsClosed(st2, ch))
  /\ UNCHANGED <<now, dbVars, reqs, out, doorVars, clientVars, pushVars>>

\* the client closes its channel
WsDisconnect(ch) ==
  /\ Quiet
  /\ ws[ch].state = "open"
  /\ WsBecomes(WsClosed(WsNow, ch))
  /\ UNCHANGED <<now, dbVars, reqs, out, doorVars, clientVars, pushVars>>

\* the sweeper of pendingBundles: every entry with now > expiresAt goes
SweepPending ==
  /\ Quiet
  /\ \E p \in DOMAIN pendingBundles : now > pendingBundles[p].expiresAt
  /\ pendingBundles' =
       [p \in {x \in DOMAIN pendingBundles : ~(now > pendingBundles[x].expiresAt)}
          |-> pendingBundles[p]]
  /\ UNCHANGED <<now, dbVars, reqs, out, ws, waiting, collectors, doorVars, clientVars, pushVars>>

\* the instants around the expiry of a bundle buffered at the start
BundleInstants == {BUNDLE_TTL_MS, BUNDLE_TTL_MS + 1}

TickBundle ==
  /\ Quiet
  /\ \E t \in BundleInstants : t > now /\ now' = t
  /\ UNCHANGED <<dbVars, reqs, out, wsVars, doorVars, clientVars, pushVars>>

\* ------------------------------------------------------------ front door
\* the X-Public-Key header of a request: a key, or "" when there is none
Headers == {"", "A", "B"}

\* a throttle that counts and never refuses
checkThrottleNoCap(rc, k, t) == TRUE

\* checkThrottle: !entry || now > entry.resetAt
ThrottleWindowOver(rc, k, t) == k \notin DOMAIN rc \/ t > rc[k].resetAt

\* checkThrottle(publicKey): what it returns on the map rc at time t
checkThrottle(rc, k, t) ==
  IF k = "" THEN TRUE
  ELSE IF ThrottleWindowOver(rc, k, t) THEN TRUE
  ELSE rc[k].count + 1 <= THROTTLE_LIMIT

\* checkThrottle(publicKey): the map it leaves
Counted(rc, k, t) ==
  IF k = "" THEN rc
  ELSE IF ThrottleWindowOver(rc, k, t)
    THEN MapSet(rc, k, [count |-> 1, resetAt |-> t + THROTTLE_WINDOW_MS])
  ELSE [rc EXCEPT ![k].count = @ + 1]

\* fetch of a path under /api/: publicKey && !checkThrottle(publicKey)
Refused(hdr) == hdr # "" /\ ~checkThrottle(requestCounts, hdr, now)

\* history: the request is the first of a window of its key when the key has
\* no window yet or the last one ended, 60 seconds after its first request
Served(sv, k, t, through) ==
  LET one == IF through THEN 1 ELSE 0
  IN IF k = "" THEN sv
     ELSE IF k \notin DOMAIN sv \/ t > sv[k].since + THROTTLE_WINDOW_MS
       THEN MapSet(sv, k, [since |-> t, n |-> one])
     ELSE [sv EXCEPT ![k].n = @ + one]

\* fetch(req) for a path under /api/ whose header is hdr and whose route,
\* were it reached, is the step handleApi of the handler named op.  A
\* refusal is sent before any handler runs; of records what was refused.
fetch(r, hdr, op, handleApi) ==
  /\ Free(r)
  /\ requestCounts' = Counted(requestCounts, hdr, now)
  /\ served' = Served(served, hdr, now, ~Refused(hdr))
  /\ IF Refused(hdr)
       THEN /\ out' = [Http(429, "Too many requests")
                        EXCEPT !.of = [Blank EXCEPT !.op = op, !.key = hdr]]
            /\ UNCHANGED <<now, dbVars, reqs, wsVars, pushVars, clientVars>>
       ELSE handleApi

\* the clock of the throttle: the end of a window and the instant after it
ThrottleInstants == {THROTTLE_WINDOW_MS, THROTTLE_WINDOW_MS + 1}

TickThrottle ==
  /\ Quiet
  /\ \E t \in ThrottleInstants : t > now /\ now' = t
  /\ out' = NoResp
  /\ UNCHANGED <<dbVars, reqs, wsVars, doorVars, clientVars, pushVars>>

\* ------------------------------------------------------- client: outbox
serverVars == <<now, dbVars, reqs, out, wsVars, doorVars, pushVars>>

Items == 1..MaxItems

\* the ciphertext of an item: every item has its own
ItemPayloads == << <<"W","A","=","=">>, <<"W","Q","=","=">>, <<"W","B","=","=">> >>
ItemPayload(i) == ItemPayloads[i]

\* enqueue(dayId, payloadB64) of submitEntry: the item gets a fresh id
enqueue(i) ==
  /\ Quiet
  /\ i = outboxSeq + 1
  /\ outbox' = outbox \cup {i}
  /\ outboxSeq' = i
  /\ UNCHANGED <<serverVars, flushes>>

\* a call of flushOutbox, with the keys of the user at hand, up to its
\* await of peekAll
flushOutbox(f) ==
  /\ Quiet
  /\ flushes[f].pc = "idle"
  /\ \A f2 \in Flushes : f2 < f => flushes[f2].pc # "idle"
  /\ flushes' = [flushes EXCEPT ![f].pc = "peek"]
  /\ UNCHANGED <<serverVars, outbox, outboxSeq>>

\* getAll(): the items of the store in the order of their keys
Pending(S) ==
  CHOOSE s \in [1..Cardinality(S) -> S] :
    \A i, j \in 1..Cardinality(S) : i < j => s[i] < s[j]

\* the body of the for loop begins with the next item, or the loop ends
FlushLoop(items) ==
  IF items = <<>> THEN NoFlush
  ELSE [pc |-> "post", items |-> items, slot |-> 0]

\* peekAll() returns
peekAll(f) ==
  /\ Quiet
  /\ flushes[f].pc = "peek"
  /\ flushes' = [flushes EXCEPT ![f] = FlushLoop(Pending(outbox))]
  /\ UNCHANGED <<serverVars, outbox, outboxSeq>>

\* fetch(API_ENTRIES, {method: "POST", headers, body}) with fresh signed
\* headers: the request of the item in hand reaches createEntry
flushPost(f, r) ==
  /\ flushes[f].pc = "post"
  /\ createEntryRoute(r, "A", GoodCred, "2026-02-15", ItemPayload(Head(flushes[f].items)))
  /\ flushes' = [flushes EXCEPT ![f].pc = "wait", ![f].slot = r]
  /\ UNCHANGED <<outbox, outboxSeq>>

\* res.ok
ResOk(status) == status \in 200..299

\* the response of the POST arrives: if (res.ok) await remove(item.id)
flushResponse(f) ==
  /\ ~Quiet
  /\ flushes[f].pc = "wait"
  /\ reqs[flushes[f].slot].pc = "idle"
  /\ out.of.op = "upload"
  /\ out' = NoResp
  /\ flushes' = [flushes EXCEPT ![f] =
                   IF ResOk(out.status)
                     THEN [@ EXCEPT !.pc = "remove"]
                     ELSE FlushLoop(Tail(@.items))]
  /\ UNCHANGED <<now, dbVars, reqs, wsVars, doorVars, pushVars, outbox, outboxSeq>>

\* remove(item.id) completes
remove(f) ==
  /\ Quiet
  /\ flushes[f].pc = "remove"
  /\ outbox' = outbox \ {Head(flushes[f].items)}
  /\ flushes' = [flushes EXCEPT ![f] = FlushLoop(Tail(@.items))]
  /\ UNCHANGED <<serverVars, outboxSeq>>

\* ------------------------------------------------------- specifications
\* Pairing by three keys, with two handlers in flight: initiate, join and
\* account deletion in every interleaving of their database statements.
NextPairs ==
  \/ \E r \in Slots, k \in Keys \cup {"AAAA"} : initiate(r, k)
  \/ \E r \in Slots, k \in Keys, t \in 1..(MaxPairs + 1) : joinLookup(r, k, t)
  \/ \E r \in Slots : joinTx(r)
  \/ \E r \in Slots, k \in Keys : deleteAccountAuth(r, k, GoodCred)
  \/ \E r \in Slots : deleteAccountEntries(r)
  \/ \E r \in Slots : deleteAccountUser(r)
  \/ Deliver

SpecPairs == Init /\ [][NextPairs]_vars

\* Pairing and status polling by two keys, with two handlers in flight.
NextStatus ==
  \/ \E r \in Slots, k \in {"A", "B"} : initiate(r, k)
  \/ \E r \in Slots, k \in {"A", "B"}, t \in 1..MaxPairs : joinLookup(r, k, t)
  \/ \E r \in Slots : joinTx(r)
  \/ \E r \in Slots, k \in {"A", "B"}, cred \in Creds : pairStatusAuth(r, k, cred)
  \/ \E r \in Slots : pairStatusPartners(r)
  \/ Deliver

SpecStatus == Init /\ [][NextStatus]_vars

\* Re-pairing of two keys that hold push subscriptions, two handlers in
\* flight, while the clock passes the expiry of the tokens.
NextRepair ==
  \/ \E r \in Slots, k \in {"A", "B"} : initiate(r, k)
  \/ \E r \in Slots, k \in {"A", "B"}, t \in 1..MaxPairs : joinLookup(r, k, t)
  \/ \E r \in Slots : joinTx(r)
  \/ \E r \in Slots, k \in {"A", "B"}, s \in Subscriptions \cup {BadSubscription} :
       subscribePushAuth(r, k, GoodCred, s)
  \/ \E r \in Slots : subscribePushUpdate(r)
  \/ Tick
  \/ Deliver

SpecRepair == Init /\ [][NextRepair]_vars

\* Entries of two keys that pair and re-pair.  One entries handler runs at a
\* time; initiate and join run beside it, between any two of its statements.
EntryKeys == {"A", "B"}
EntryPayloads == {<<"W","A","=","=">>}
EntrySlots == {1}
\* acks that name one id and acks that name every id
EntryAcks ==
  {body \in AckInputs : body.isArray /\ Cardinality(body.ids) \in {1, MaxEntries}}

NextEntries ==
  \/ \E r \in Slots, k \in EntryKeys : initiate(r, k)
  \/ \E r \in Slots, k \in EntryKeys, t \in 1..MaxPairs : joinLookup(r, k, t)
  \/ \E r \in Slots : joinTx(r)
  \/ \E r \in EntrySlots, k \in EntryKeys, pl \in EntryPayloads :
       createEntryAuth(r, k, GoodCred, "2026-02-15", pl)
  \/ \E r \in EntrySlots : createEntryCount(r)
  \/ \E r \in EntrySlots : createEntryInsert(r)
  \/ \E r \in EntrySlots, k \in EntryKeys : getEntriesAuth(r, k, GoodCred, "")
  \/ \E r \in EntrySlots : getEntriesPartners(r)
  \/ \E r \in EntrySlots : getEntriesSelect(r)
  \/ \E r \in EntrySlots : getEntriesMark(r)
  \/ \E r \in EntrySlots, k \in EntryKeys, body \in EntryAcks :
       ackEntriesAuth(r, k, GoodCred, body)
  \/ \E r \in EntrySlots : ackEntriesPartners(r)
  \/ \E r \in EntrySlots : ackEntriesDelete(r)
  \/ Deliver

SpecEntries == Init /\ [][NextEntries]_vars

\* One request at a time: the rate limit of uploads across acks, account
\* deletion and re-pairing.
Alone == {1}

NextUpload ==
  \/ \E r \in Alone, k \in EntryKeys : initiate(r, k)
  \/ \E r \in Alone, k \in EntryKeys, t \in 1..MaxPairs : joinLookup(r, k, t)
  \/ \E r \in Alone : joinTx(r)
  \/ \E r \in Alone, k \in EntryKeys, d \in {"2026-02-15", "2026-13-01"},
        pl \in EntryPayloads :
       createEntryAuth(r, k, GoodCred, d, pl)
  \/ \E r \in Alone : createEntryCount(r)
  \/ \E r \in Alone : createEntryInsert(r)
  \/ \E r \in Alone, k \in EntryKeys, body \in AckInputs :
       ackEntriesAuth(r, k, GoodCred, body)
  \/ \E r \in Alone : ackEntriesPartners(r)
  \/ \E r \in Alone : ackEntriesDelete(r)
  \/ \E r \in Alone, k \in EntryKeys : deleteAccountAuth(r, k, GoodCred)
  \/ \E r \in Alone : deleteAccountEntries(r)
  \/ \E r \in Alone : deleteAccountUser(r)
  \/ Deliver

SpecUpload == Init /\ [][NextUpload]_vars

\* One request at a time: uploads of every payload and day text, fetches
\* with and without since, acks of one id, and the clock.
AckOne == {body \in AckInputs : Cardinality(body.ids) = 1}

NextRoundTrip ==
  \/ \E r \in Alone, k \in EntryKeys : initiate(r, k)
  \/ \E r \in Alone, k \in EntryKeys, t \in 1..MaxPairs : joinLookup(r, k, t)
  \/ \E r \in Alone : joinTx(r)
  \/ \E r \in Alone, k \in EntryKeys, d \in DayInputs, pl \in PayloadInputs :
       entrySeq < MaxRoundTrips /\ createEntryAuth(r, k, GoodCred, d, pl)
  \/ \E r \in Alone : createEntryCount(r)
  \/ \E r \in Alone : createEntryInsert(r)
  \/ \E r \in Alone, k \in EntryKeys, since \in SinceInputs :
       getEntriesAuth(r, k, GoodCred, since)
  \/ \E r \in Alone : getEntriesPartners(r)
  \/ \E r \in Alone : getEntriesSelect(r)
  \/ \E r \in Alone : getEntriesMark(r)
  \/ \E r \in Alone, k \in EntryKeys, body \in AckOne :
       ackEntriesAuth(r, k, GoodCred, body)
  \/ \E r \in Alone : ackEntriesPartners(r)
  \/ \E r \in Alone : ackEntriesDelete(r)
  \/ Deliver

SpecRoundTrip == Init /\ [][NextRoundTrip]_vars

\* One request at a time: every authenticated endpoint, called by paired,
\* unregistered and malformed keys with every kind of credential.
NextAuth ==
  \/ \E r \in Alone, k \in EntryKeys : initiate(r, k)
  \/ \E r \in Alone, k \in EntryKeys, t \in 1..MaxPairs : joinLookup(r, k, t)
  \/ \E r \in Alone : joinTx(r)
  \/ \E r \in Alone, k \in KeyInputs, cred \in Creds : pairStatusAuth(r, k, cred)
  \/ \E r \in Alone : pairStatusPartners(r)
  \/ \E r \in Alone, k \in KeyInputs, cred \in Creds, pl \in EntryPayloads :
       entrySeq < MaxAuthEntries /\ createEntryAuth(r, k, cred, "2026-02-15", pl)
  \/ \E r \in Alone : createEntryCount(r)
  \/ \E r \in Alone : createEntryInsert(r)
  \/ \E r \in Alone, k \in KeyInputs, cred \in Creds : getEntriesAuth(r, k, cred, "")
  \/ \E r \in Alone : getEntriesPartners(r)
  \/ \E r \in Alone : getEntriesSelect(r)
  \/ \E r \in Alone : getEntriesMark(r)
  \/ \E r \in Alone, k \in KeyInputs, cred \in Creds, body \in AckOne :
       ackEntriesAuth(r, k, cred, body)
  \/ \E r \in Alone : ackEntriesPartners(r)
  \/ \E r \in Alone : ackEntriesDelete(r)
  \/ \E r \in Alone, k \in KeyInputs, cred \in Creds, sub \in Subscriptions :
       subscribePushAuth(r, k, cred, sub)
  \/ \E r \in Alone : subscribePushUpdate(r)
  \/ \E r \in Alone, k \in KeyInputs, cred \in Creds : deleteAccountAuth(r, k, cred)
  \/ \E r \in Alone : deleteAccountEntries(r)
  \/ \E r \in Alone : deleteAccountUser(r)
  \/ Deliver

SpecAuth == Init /\ [][NextAuth]_vars

\* The handoff between the two keys of a pair: channels that authenticate as
\* watcher or collector with a signature made for either role, bundles and
\* disconnects, beside initiate and join.
HandoffMsgs == {msg \in WsMsgs : msg = WsGoodMsg(msg.publicKey, msg.sig)}

NextHandoff ==
  \/ \E r \in Alone, k \in {"A", "B"} : initiate(r, k)
  \/ \E r \in Alone, k \in {"A", "B"}, t \in 1..MaxPairs : joinLookup(r, k, t)
  \/ \E r \in Alone : joinTx(r)
  \/ \E ch \in Chans : WsUpgrade(ch)
  \/ \E ch \in Chans, msg \in HandoffMsgs, prefix \in {"WATCH", "COLLECT"} :
       verifyWsAuth(ch, msg, prefix)
  \/ \E ch \in Chans : handleWsAuth(ch)
  \/ \E ch \in Chans : handleWsCollect(ch)
  \/ \E ch \in Chans, payload \in BundlePayloads : handleWsBundle(ch, payload)
  \/ \E ch \in Chans : WsDisconnect(ch)
  \/ Deliver

SpecHandoff == Init /\ [][NextHandoff]_vars

\* The expiry of buffered bundles: the handoff with one payload while the
\* clock passes the expiry of a bundle and the sweeper runs.
NextExpiry ==
  \/ \E r \in Alone, k \in {"A", "B"} : initiate(r, k)
  \/ \E r \in Alone, k \in {"A", "B"}, t \in 1..MaxPairs : joinLookup(r, k, t)
  \/ \E r \in Alone : joinTx(r)
  \/ \E ch \in Chans : WsUpgrade(ch)
  \/ \E ch \in Chans, msg \in HandoffMsgs, prefix \in {"WATCH", "COLLECT"} :
       verifyWsAuth(ch, msg, prefix)
  \/ \E ch \in Chans : handleWsAuth(ch)
  \/ \E ch \in Chans : handleWsCollect(ch)
  \/ \E ch \in Chans : handleWsBundle(ch, "bundle-1")
  \/ \E ch \in Chans : WsDisconnect(ch)
  \/ SweepPending
  \/ TickBundle
  \/ Deliver

SpecExpiry == Init /\ [][NextExpiry]_vars

\* The front door before initiate and the status poll, one request at a
\* time: requests with and without the header, up to MaxThrottled of them
\* past the cap of a window, while the clock passes the end of a window.
ThrottleCreds == {GoodCred, [GoodCred EXCEPT !.sig = "invalid"]}

Countable(hdr) ==
  IF hdr = "" \/ ThrottleWindowOver(requestCounts, hdr, now) THEN TRUE
  ELSE requestCounts[hdr].count < THROTTLE_LIMIT + MaxThrottled

NextThrottle ==
  \/ \E r \in Alone, hdr \in Headers :
       Countable(hdr) /\ fetch(r, hdr, "initiate", initiateRoute(r, "A"))
  \/ \E r \in Alone, hdr \in Headers, cred \in ThrottleCreds :
       Countable(hdr) /\ fetch(r, hdr, "status", pairStatusRoute(r, hdr, cred))
  \/ \E r \in Alone : pairStatusPartners(r)
  \/ TickThrottle
  \/ Deliver

SpecThrottle == Init /\ [][NextThrottle]_vars

\* The push emitter with the VAPID keys set, one request at a time: two
\* keys pair, subscribe and upload, the transport answers every way and the
\* emitter's own statements succeed or fail, while the partner fetches.
NextPush ==
  \/ \E r \in Alone : initiate(r, "A")
  \/ \E r \in Alone, t \in 1..MaxPairs : joinLookup(r, "B", t)
  \/ \E r \in Alone : joinTx(r)
  \/ \E r \in Alone, k \in EntryKeys, s \in Subscriptions :
       subscribePushAuth(r, k, GoodCred, s)
  \/ \E r \in Alone : subscribePushUpdate(r)
  \/ \E r \in Alone, k \in EntryKeys, pl \in EntryPayloads :
       entrySeq < MaxPushEntries /\ createEntryAuth(r, k, GoodCred, "2026-02-15", pl)
  \/ \E r \in Alone : createEntryCount(r)
  \/ \E r \in Alone : createEntryInsert(r)
  \/ \E r \in Alone, k \in EntryKeys : getEntriesAuth(r, k, GoodCred, "")
  \/ \E r \in Alone : getEntriesPartners(r)
  \/ \E r \in Alone : getEntriesSelect(r)
  \/ \E r \in Alone : getEntriesMark(r)
  \/ \E t \in pushTasks, ok \in BOOLEAN : notifyPartnerSelect(t, ok)
  \/ \E t \in pushTasks, answer \in PushAnswers : notifyPartnerSend(t, answer)
  \/ \E t \in pushTasks, ok \in BOOLEAN : notifyPartnerClear(t, ok)
  \/ Deliver

SpecPush == InitPush /\ [][NextPush]_vars

\* Accounts: two keys pair, upload, poll the status and delete their
\* accounts, with two handlers in flight, so that a deletion runs between
\* the statements of an upload and an upload between those of a deletion.
NextAccount ==
  \/ \E r \in Slots, k \in EntryKeys : initiate(r, k)
  \/ \E r \in Slots, k \in EntryKeys, t \in 1..MaxPairs : joinLookup(r, k, t)
  \/ \E r \in Slots : joinTx(r)
  \/ \E r \in Slots, k \in EntryKeys, pl \in EntryPayloads :
       createEntryAuth(r, k, GoodCred, "2026-02-15", pl)
  \/ \E r \in Slots : createEntryCount(r)
  \/ \E r \in Slots : createEntryInsert(r)
  \/ \E r \in Slots, k \in EntryKeys : pairStatusAuth(r, k, GoodCred)
  \/ \E r \in Slots : pairStatusPartners(r)
  \/ \E r \in Slots, k \in EntryKeys : deleteAccountAuth(r, k, GoodCred)
  \/ \E r \in Slots : deleteAccountEntries(r)
  \/ \E r \in Slots : deleteAccountUser(r)
  \/ Deliver

SpecAccount == Init /\ [][NextAccount]_vars

\* The lifetime of entries: one request at a time, two keys that pair,
\* upload, fetch and ack, and the clock.  The server finishes what it has
\* begun: a handler that is suspended on a statement resumes, a response is
\* delivered, time passes.  Whether a client sends a request is up to it.
NextLifetime ==
  \/ \E r \in Alone, k \in EntryKeys : initiate(r, k)
  \/ \E r \in Alone, k \in EntryKeys, t \in 1..MaxPairs : joinLookup(r, k, t)
  \/ \E r \in Alone : joinTx(r)
  \/ \E r \in Alone, k \in EntryKeys, pl \in EntryPayloads :
       entrySeq < MaxRoundTrips /\ createEntryAuth(r, k, GoodCred, "2026-02-15", pl)
  \/ \E r \in Alone : createEntryCount(r)
  \/ \E r \in Alone : createEntryInsert(r)
  \/ \E r \in Alone, k \in EntryKeys : getEntriesAuth(r, k, GoodCred, "")
  \/ \E r \in Alone : getEntriesPartners(r)
  \/ \E r \in Alone : getEntriesSelect(r)
  \/ \E r \in Alone : getEntriesMark(r)
  \/ \E r \in Alone, k \in EntryKeys, body \in AckOne :
       ackEntriesAuth(r, k, GoodCred, body)
  \/ \E r \in Alone : ackEntriesPartners(r)
  \/ \E r \in Alone : ackEntriesDelete(r)
  \/ Tick
  \/ Deliver

\* the steps the server takes by itself
ServerSteps ==
  \/ \E r \in Alone :
       \/ joinTx(r)
       \/ createEntryCount(r) \/ createEntryInsert(r)
       \/ getEntriesPartners(r) \/ getEntriesSelect(r) \/ getEntriesMark(r)
       \/ ackEntriesPartners(r) \/ ackEntriesDelete(r)
  \/ Tick
  \/ Deliver

SpecLifetime == Init /\ [][NextLifetime]_vars /\ WF_vars(ServerSteps)

\* Joins that fail: two handlers in flight, so that two joins read the same
\* unconsumed token, joins with missing, malformed, unknown, consumed,
\* expired and own tokens, while channels watch the pairs and the clock
\* passes the expiry of the tokens.
JoinKeys == {"", "A", "B", "AAAA"}
WatchMsgs == {WsGoodMsg(k, "WATCH") : k \in {"A", "B"}}

NextJoin ==
  \/ \E r \in Slots, k \in {"A", "B"} : initiate(r, k)
  \/ \E r \in Slots, k \in JoinKeys, t \in 0..(MaxPairs + 1) : joinLookup(r, k, t)
  \/ \E r \in Slots : joinTx(r)
  \/ \E ch \in Chans : WsUpgrade(ch)
  \/ \E ch \in Chans, msg \in WatchMsgs : verifyWsAuth(ch, msg, "WATCH")
  \/ \E ch \in Chans : handleWsAuth(ch)
  \/ Tick
  \/ Deliver

SpecJoin == Init /\ [][NextJoin]_vars

\* Overlapping entries handlers: two uploads or two fetches in flight at a
\* time, each between any two statements of the other, in a pair of A and B,
\* while the clock passes.  No entry is deleted.
NextOverlap ==
  \/ \E r \in Slots : initiate(r, "A")
  \/ \E r \in Slots, t \in 1..MaxPairs : joinLookup(r, "B", t)
  \/ \E r \in Slots : joinTx(r)
  \/ \E r \in Slots, pl \in EntryPayloads :
       createEntryAuth(r, "A", GoodCred, "2026-02-15", pl)
  \/ \E r \in Slots : createEntryCount(r)
  \/ \E r \in Slots : createEntryInsert(r)
  \/ \E r \in Slots, k \in EntryKeys : getEntriesAuth(r, k, GoodCred, "")
  \/ \E r \in Slots : getEntriesPartners(r)
  \/ \E r \in Slots : getEntriesSelect(r)
  \/ \E r \in Slots : getEntriesMark(r)
  \/ Tick
  \/ Deliver

SpecOverlap == Init /\ [][NextOverlap]_vars

\* The relay of the bundles of one pair, A its initiator and B its follower,
\* with a third connection: a watcher and two collectors, or two watchers
\* and a collector, with disconnects, the sweeper and the clock past the
\* expiry of a bundle.
RelayChans == 1..(MaxChans + 1)
RelayMsgs == {WsGoodMsg("A", "WATCH"), WsGoodMsg("A", "COLLECT"), WsGoodMsg("B", "COLLECT")}

InitRelay == BootWith(FALSE, RelayChans)

NextRelay ==
  \/ \E r \in Alone : pairs = {} /\ initiate(r, "A")
  \/ \E r \in Alone : joinLookup(r, "B", 1)
  \/ \E r \in Alone : joinTx(r)
  \/ \E ch \in RelayChans : WsUpgrade(ch)
  \/ \E ch \in RelayChans, msg \in RelayMsgs : verifyWsAuth(ch, msg, msg.sig)
  \/ \E ch \in RelayChans : handleWsAuth(ch)
  \/ \E ch \in RelayChans : handleWsCollect(ch)
  \/ \E ch \in RelayChans : handleWsBundle(ch, "bundle-1")
  \/ \E ch \in RelayChans : WsDisconnect(ch)
  \/ SweepPending
  \/ TickBundle
  \/ Deliver

SpecRelay == InitRelay /\ [][NextRelay]_vars

\* The push emitter beside a recipient that subscribes again: A uploads, B
\* registers one subscription and then another, at any moment between the
\* statements of the emitter, and the transport answers every way.
NextResubscribe ==
  \/ \E r \in Alone : pairs = {} /\ initiate(r, "A")
  \/ \E r \in Alone : joinLookup(r, "B", 1)
  \/ \E r \in Alone : joinTx(r)
  \/ \E r \in Alone, s \in Subscriptions \cup {SecondSubscription} :
       subscribePushAuth(r, "B", GoodCred, s)
  \/ \E r \in Alone : subscribePushUpdate(r)
  \/ \E r \in Alone, pl \in EntryPayloads :
       entrySeq < MaxPushEntries /\ createEntryAuth(r, "A", GoodCred, "2026-02-15", pl)
  \/ \E r \in Alone : createEntryCount(r)
  \/ \E r \in Alone : createEntryInsert(r)
  \/ \E t \in pushTasks, ok \in BOOLEAN : notifyPartnerSelect(t, ok)
  \/ \E t \in pushTasks, answer \in PushAnswers : notifyPartnerSend(t, answer)
  \/ \E t \in pushTasks, ok \in BOOLEAN : notifyPartnerClear(t, ok)
  \/ Deliver

SpecResubscribe == InitPush /\ [][NextResubscribe]_vars

\* The outbox of A's client against the server: items are enqueued and
\* flushOutbox runs up to twice at a time, each call between any two awaits
\* of the other, while createEntry handles their requests.
NextOutbox ==
  \/ \E r \in Slots : pairs = {} /\ initiate(r, "A")
  \/ \E i \in Items : enqueue(i)
  \/ \E f \in Flushes : flushOutbox(f)
  \/ \E f \in Flushes : peekAll(f)
  \/ \E f \in Flushes, r \in Slots : flushPost(f, r)
  \/ \E r \in Slots : createEntryCount(r)
  \/ \E r \in Slots : createEntryInsert(r)
  \/ \E f \in Flushes : flushResponse(f)
  \/ \E f \in Flushes : remove(f)
  \/ out.of.op # "upload" /\ Deliver

SpecOutbox == Init /\ [][NextOutbox]_vars

\* ------------------------------------------------------------------ claims

\* C1: two joins of distinct keys that race for one token (both read it
\* unconsumed and unexpired before either transaction ran) end with exactly
\* one 200 and one 410, and exactly one of the two keys is registered in the
\* token's pair.
C1_JoinRace ==
  \A x, y \in joinLog :
    (x.token = y.token /\ x.key # y.key) =>
      /\ {x.status, y.status} = {200, 410}
      /\ LET p == relay_tokens[x.token].pair_id
             winner == IF x.status = 200 THEN x.key ELSE y.key
             loser == IF x.status = 200 THEN y.key ELSE x.key
         IN /\ winner \in members[p]
            /\ loser \notin members[p]
            /\ relay_tokens[x.token].initiator_key \notin {x.key, y.key}

C1_Witness ==
  \E x, y \in joinLog : x.token = y.token /\ x.key # y.key

\* C2: a token's consumed flag goes from false to true only in the step of a
\* join that answers 200, never goes back to false, and every join that
\* presents a consumed token with a well-formed key is answered 410.
C2_ConsumedOnce ==
  [][ \A t \in DOMAIN relay_tokens :
        /\ t \in DOMAIN relay_tokens'
        /\ relay_tokens[t].consumed => relay_tokens'[t].consumed
        /\ (~relay_tokens[t].consumed /\ relay_tokens'[t].consumed) =>
             /\ out'.status = 200
             /\ \E r \in Slots : /\ reqs[r].pc = "join_tx"
                                 /\ reqs[r].token = t
                                 /\ reqs'[r] = Blank
        /\ relay_tokens[t].consumed =>
             /\ \A r \in Slots, k \in Keys :
                  joinLookup(r, k, t) => out'.status = 410
             /\ \A r \in Slots :
                  (reqs[r].token = t /\ joinTx(r)) => out'.status = 410
    ]_vars

C2_Witness ==
  /\ out.status = 410
  /\ out.error = "Pairing code already consumed"
  /\ \E x \in joinLog : x.status = 200

\* C3: every pair has at most two user rows, and at most two keys are ever
\* registered in a pair over its whole history.
C3_AtMostTwo ==
  \A p \in pairs :
    /\ Cardinality({k \in DOMAIN users : users[k].pair_id = p}) <= 2
    /\ Cardinality(members[p]) <= 2

\* a pair that has had two users, one of whom re-paired or deleted the
\* account, while a third key was refused
C3_Witness ==
  \E p \in pairs :
    /\ Cardinality(members[p]) = 2
    /\ \E k \in members[p] : k \notin DOMAIN users \/ users[k].pair_id # p
    /\ \E x \in joinLog : x.status = 410 /\ relay_tokens[x.token].pair_id = p

\* C4: an initiate answered 201 or a join answered 200, by a key that
\* already has a user row, adds no row, and leaves that key's row with the
\* pair_id of the new pair (initiate) or of the token's pair (join) and with
\* push_endpoint, push_p256dh and push_auth all NULL.
ClearedRow(p) ==
  [pair_id |-> p, push_endpoint |-> Null, push_p256dh |-> Null, push_auth |-> Null]

C5_AckSparesOwn ==
  [][ \A r \in EntrySlots :
        ackEntriesDelete(r) =>
          LET gone == (DOMAIN entries) \ (DOMAIN entries')
          IN /\ \A x \in gone : entries[x].author_key # reqs[r].key
             /\ \A x \in gone : entries[x].author_key = reqs[r].partner
             /\ reqs[r].partner # reqs[r].key
             /\ reqs[r].partner \in members[reqs[r].pairId]
             /\ out'.status = 200
             /\ out'.deleted = Cardinality(gone)
             /\ \A x \in DOMAIN entries' : entries'[x] = entries[x]
    ]_vars

\* an ack that named an entry of the caller and removed one of the partner
C5_Witness ==
  /\ out.status = 200
  /\ out.of.op = "ack"
  /\ out.deleted = 1
  /\ \E x \in out.of.ids : x \in DOMAIN entries /\ entries[x].author_key = out.of.key

\* C6: an ack authenticated into pair p deletes no entry whose pair_id is
\* not p; an ack whose ids all belong to other pairs answers 200 with
\* deleted = 0 and leaves the entries as they were.
C6_AckStaysInPair ==
  [][ \A r \in EntrySlots :
        ackEntriesDelete(r) =>
          LET p == reqs[r].pairId
              named == reqs[r].ids \cap DOMAIN entries
          IN /\ \A x \in (DOMAIN entries) \ (DOMAIN entries') : entries[x].pair_id = p
             /\ (\A x \in named : entries[x].pair_id # p) =>
                  /\ out'.status = 200
                  /\ out'.deleted = 0
                  /\ entries' = entries
    ]_vars

\* an ack named an entry that the caller's partner authored in another pair
C6_Witness ==
  /\ out.status = 200
  /\ out.of.op = "ack"
  /\ out.deleted = 0
  /\ users[out.of.key].pair_id = out.of.pairId
  /\ \E x \in out.of.ids :
       /\ x \in DOMAIN entries
       /\ entries[x].author_key = out.of.partner
       /\ entries[x].pair_id # out.of.pairId

\* C7: a fetch by key a returns no entry whose author_key is a; every entry
\* it returns is stored under the pair_id a authenticated into and is
\* authored by the other user it resolved in that pair.
C7_FetchOnlyPartner ==
  [][ \A r \in EntrySlots :
        /\ getEntriesSelect(r) =>
             LET ret == IF out'.status = 200 THEN out'.entries ELSE reqs'[r].result
             IN \A i \in 1..Len(ret) :
                  /\ ret[i].id \in DOMAIN entries
                  /\ entries[ret[i].id].author_key # reqs[r].key
                  /\ entries[ret[i].id].author_key = reqs[r].partner
                  /\ entries[ret[i].id].pair_id = reqs[r].pairId
                  /\ reqs[r].partner \in members[reqs[r].pairId]
        /\ getEntriesMark(r) =>
             out'.status = 200 /\ out'.entries = reqs[r].result
        /\ getEntriesPartners(r) =>
             \/ out'.status = 200 /\ out'.entries = <<>>
             \/ reqs'[r].partner \in Partners(users, reqs[r].pairId, reqs[r].key)
    ]_vars

\* a fetch returned one entry while the caller has an entry of its own and
\* the partner has an entry stored under another pair
C7_Witness ==
  /\ out.status = 200
  /\ out.of.op = "fetch"
  /\ Len(out.entries) = 1
  /\ users[out.of.key].pair_id = out.of.pairId
  /\ \E x \in DOMAIN entries : entries[x].author_key = out.of.key
  /\ \E y \in DOMAIN entries :
       entries[y].author_key = out.of.partner /\ entries[y].pair_id # out.of.pairId

\* C8 as stated: an upload that was issued when two uploads of its author
\* for its day had been answered 201 is answered 429 and leaves the entries
\* unchanged.
C8_AcceptedCountLimit ==
  [][ \A r \in Alone :
        (reqs[r].op = "upload" /\ reqs[r].seen >= MAX_BLOBS_PER_DAY) =>
          /\ entries' = entries
          /\ out'.status \in {0, 429}
    ]_vars

\* C9: round trip between the two users of a pair.  An upload answered 201
\* stores an entry under a fresh id; a fetch by the partner returns every
\* stored entry of the author in the pair from since on, with the dayId as it
\* was sent and a payload that decodes to the bytes that were sent (the same
\* text when the sent text was canonical base64), and when it answers those
\* entries have fetched_at set; an ack of such an id by the partner removes
\* the entry and counts it; an entry that is gone never comes back, and a
\* fetch returns stored entries only.
Canonical(pl) == Base64Encode(Base64Decode(pl)) = pl

C9_RoundTrip ==
  [][ \A r \in Alone :
        /\ (createEntryInsert(r) /\ out'.status = 201) =>
             /\ out'.id \notin DOMAIN accepted
             /\ out'.id \in DOMAIN entries'
             /\ entries'[out'.id].author_key = reqs[r].key
             /\ entries'[out'.id].pair_id = reqs[r].pairId
        /\ (getEntriesSelect(r) /\ IsDate(reqs[r].since)) =>
             LET q == reqs[r]
                 ret == IF out'.status = 200 THEN out'.entries ELSE reqs'[r].result
             IN /\ \A i \in 1..Len(ret) : ret[i].id \in DOMAIN entries
                /\ \A x \in DOMAIN entries :
                     ( /\ entries[x].author_key = q.partner
                       /\ entries[x].pair_id = q.pairId
                       /\ ParseDate(accepted[x].dayId) >= ParseDate(q.since) ) =>
                       \E i \in 1..Len(ret) :
                         /\ ret[i].id = x
                         /\ ret[i].dayId = accepted[x].dayId
                         /\ Base64Decode(ret[i].payload) = Base64Decode(accepted[x].payload)
                         /\ Canonical(accepted[x].payload) =>
                              ret[i].payload = accepted[x].payload
        /\ ((getEntriesSelect(r) \/ getEntriesMark(r)) /\ out'.status = 200) =>
             \A i \in 1..Len(out'.entries) :
               entries'[out'.entries[i].id].fetched_at # NoTime
        /\ getEntriesMark(r) => out'.entries = reqs[r].result
        /\ ackEntriesDelete(r) =>
             LET q == reqs[r]
                 mine == {x \in q.ids \cap DOMAIN entries :
                            /\ entries[x].author_key = q.partner
                            /\ entries[x].pair_id = q.pairId}
             IN /\ mine \cap DOMAIN entries' = {}
                /\ out'.status = 200
                /\ out'.deleted = Cardinality(mine)
        /\ \A x \in DOMAIN accepted : x \notin DOMAIN entries => x \notin DOMAIN entries'
    ]_vars

\* after an entry sent without padding was fetched, acked and removed, a
\* later fetch of the same user returned the author's next entry only, as
\* canonical text, and set its fetched_at
C9_Witness ==
  /\ out.status = 200
  /\ out.of.op = "fetch"
  /\ Len(out.entries) = 1
  /\ out.entries[1].payload = <<"W","A","=","=">>
  /\ accepted[out.entries[1].id].payload = <<"W","A">>
  /\ entries[out.entries[1].id].fetched_at # NoTime
  /\ \E x \in DOMAIN accepted :
       /\ x \notin DOMAIN entries
       /\ accepted[x].author = out.of.partner

\* C10: a join of key b that answers 200 on a token minted by initiate(a)
\* leaves the users table such that pairStatus answers a with paired:true and
\* partner b, answers b with paired:true and partner a, and the
\* partnerPublicKey of the join response is a user of the returned pairId.
C10_JoinThenStatus ==
  [][ \A r \in Slots :
        (joinTx(r) /\ out'.status = 200) =>
          LET a == reqs[r].initiator
              b == reqs[r].key
              Paired(x) == [Http(200, "") EXCEPT !.paired = TRUE,
                                                 !.partnerPublicKey = x]
          IN /\ {a, b} \subseteq DOMAIN users'
             /\ StatusBodies(users', users'[a].pair_id, a) = {Paired(b)}
             /\ StatusBodies(users', users'[b].pair_id, b) = {Paired(a)}
             /\ out'.partnerPublicKey \in
                  {x \in DOMAIN users' : users'[x].pair_id = out'.pairId}
    ]_vars

\* C11 as stated: a signed request whose timestamp differs from the server
\* clock by more than 5 minutes, in the past or in the future, is answered
\* 401 and changes no table.
C11_TimestampWindow ==
  [][ \A r \in Slots, k \in {"A", "B"}, cred \in Creds :
        ( /\ pairStatusAuth(r, k, cred)
          /\ cred.tsOk
          /\ \/ cred.age > MAX_TIMESTAMP_AGE_MS
             \/ 0 - cred.age > MAX_TIMESTAMP_AGE_MS ) =>
          /\ out'.status = 401
          /\ UNCHANGED dbVars
    ]_vars

\* C12 as stated: a join that presents a token whose expires_at is not
\* strictly later than the server clock, the same millisecond included, is
\* answered 410 and registers no follower.
C12_ExpiryIsStrict ==
  [][ \A r \in Slots, k \in {"A", "B"}, t \in DOMAIN relay_tokens :
        (joinLookup(r, k, t) /\ relay_tokens[t].expires_at <= now) =>
          /\ out'.status = 410
          /\ users' = users
    ]_vars

\* C13 as stated: a call of an authenticated endpoint (status, upload,
\* fetch, ack, push subscribe, deleteAccount) whose verification fails, for
\* whatever reason, is answered 401 and leaves users, entries and tokens
\* unchanged.
C13_Uniform401 ==
  [][ \A r \in Alone, k \in KeyInputs, cred \in Creds :
        ( /\ AuthError(cred, k) # "ok"
          /\ \/ pairStatusAuth(r, k, cred)
             \/ \E pl \in EntryPayloads : createEntryAuth(r, k, cred, "2026-02-15", pl)
             \/ getEntriesAuth(r, k, cred, "")
             \/ \E body \in AckOne : ackEntriesAuth(r, k, cred, body)
             \/ \E sub \in Subscriptions : subscribePushAuth(r, k, cred, sub)
             \/ deleteAccountAuth(r, k, cred) ) =>
          /\ out'.status = 401
          /\ users' = users
          /\ entries' = entries
          /\ relay_tokens' = relay_tokens
    ]_vars

\* C14 as stated: live handoff.  When a channel authenticated as watcher of
\* pair p sends a bundle while collectors[p] holds a channel, that channel
\* receives the bundle frame with the payload as sent, its only bundle frame,
\* and is closed and removed from collectors; pendingBundles stays as it was;
\* the watcher is closed and no longer in waiting.
HasBundle(fs) == \E i \in 1..Len(fs) : fs[i].type = "bundle"

C14_LiveHandoff ==
  [][ \A ch \in Chans, payload \in BundlePayloads :
        ( /\ handleWsBundle(ch, payload)
          /\ ws[ch].role = "watcher"
          /\ ws[ch].pairId \in DOMAIN collectors ) =>
          LET p == ws[ch].pairId
              c == collectors[p]
          IN /\ ~HasBundle(ws[c].frames)
             /\ ws'[c].frames = Append(ws[c].frames, Frame("bundle", payload))
             /\ ws'[c].state = "closed"
             /\ \A x \in DOMAIN collectors' : collectors'[x] # c
             /\ pendingBundles' = pendingBundles
             /\ ws'[ch].state = "closed"
             /\ \A x \in DOMAIN waiting' : waiting'[x] # ch
    ]_vars

\* C15 as stated: buffered handoff.  A bundle sent by a watcher of pair p
\* while collectors[p] is empty is stored in pendingBundles[p]; a collector
\* of p whose authentication completes while that entry is there and fresh
\* receives the bundle as it was stored, is closed, is not registered, and
\* the entry is removed; a collector of p that completes when there is no
\* entry gets no bundle.
C15_BufferedHandoff ==
  [][ /\ \A ch \in Chans, payload \in BundlePayloads :
           ( /\ handleWsBundle(ch, payload)
             /\ ws[ch].role = "watcher"
             /\ ws[ch].pairId \notin DOMAIN collectors ) =>
             /\ ws[ch].pairId \in DOMAIN pendingBundles'
             /\ pendingBundles'[ws[ch].pairId].payload = payload
      /\ \A ch \in Chans :
           (handleWsCollect(ch) /\ ws[ch].key \in DOMAIN users) =>
             LET p == users[ws[ch].key].pair_id
             IN IF p \in DOMAIN pendingBundles /\ now <= pendingBundles[p].expiresAt
                  THEN /\ ws'[ch].frames =
                            Append(ws[ch].frames,
                                   Frame("bundle", pendingBundles[p].payload))
                       /\ ws'[ch].state = "closed"
                       /\ \A x \in DOMAIN collectors' : collectors'[x] # ch
                       /\ p \notin DOMAIN pendingBundles'
                  ELSE ~HasBundle(ws'[ch].frames)
    ]_vars

\* C16: a collector whose authentication completes more than 5 minutes
\* after the pair's bundle was buffered, or after the sweeper removed it,
\* receives no bundle frame in that step: the channel is stored in
\* collectors, pendingBundles stays as it was, and the frame sent is ready.
C16_ExpiredNeverDelivered ==
  [][ \A ch \in Chans :
        (handleWsCollect(ch) /\ ws[ch].key \in DOMAIN users) =>
          LET p == users[ws[ch].key].pair_id
          IN ( \/ p \notin DOMAIN pendingBundles
               \/ now - pendingBundles[p].at > BUNDLE_TTL_MS ) =>
               /\ \A i \in (Len(ws[ch].frames) + 1)..Len(ws'[ch].frames) :
                    ws'[ch].frames[i].type # "bundle"
               /\ p \in DOMAIN collectors' /\ collectors'[p] = ch
               /\ ws'[ch].frames =
                    IF ws[ch].state = "open"
                      THEN Append(ws[ch].frames, Frame("ready", ""))
                      ELSE ws[ch].frames
               /\ ws'[ch].state = ws[ch].state
               /\ pendingBundles' = pendingBundles
    ]_vars

\* a bundle buffered more than 5 minutes ago is still in pendingBundles, and
\* the pair's collector, which authenticated after it was buffered, is open
\* and registered with ready as its only frame
C16_Witness ==
  \E p \in (DOMAIN pendingBundles) \cap (DOMAIN collectors) :
    /\ now - pendingBundles[p].at > BUNDLE_TTL_MS
    /\ ws[collectors[p]].state = "open"
    /\ ws[collectors[p]].frames = <<Frame("ready", "")>>

Registered(m, ch) == \E p \in DOMAIN m : m[p] = ch

C18_RolePrefixes ==
  [][ \A ch \in Chans :
        /\ (Registered(collectors', ch) /\ ~Registered(collectors, ch)) =>
             handleWsCollect(ch) /\ ws[ch].sig = "COLLECT"
        /\ (Registered(waiting', ch) /\ ~Registered(waiting, ch)) =>
             handleWsAuth(ch) /\ ws[ch].sig = "WATCH"
        /\ \A k \in {"A", "B"}, prefix \in {"WATCH", "COLLECT"} :
             verifyWsAuth(ch, WsGoodMsg(k, IF prefix = "WATCH" THEN "COLLECT" ELSE "WATCH"),
                          prefix) =>
               /\ ws'[ch].frames =
                    Append(ws[ch].frames, Frame("error", "Invalid signature"))
               /\ ws'[ch].state = "closed"
               /\ ws'[ch].pc = "idle"
               /\ ~Registered(waiting', ch)
               /\ ~Registered(collectors', ch)
    ]_vars

\* a channel that presented a signature made for the other role of a
\* registered key is closed with the error frame, while the other channel
\* is registered
C18_Witness ==
  \E ch, c2 \in Chans :
    /\ ws[ch].state = "closed"
    /\ ws[ch].frames = <<Frame("error", "Invalid signature")>>
    /\ ws[ch].role = Null
    /\ ~Registered(waiting, ch) /\ ~Registered(collectors, ch)
    /\ Registered(collectors, c2)
    /\ ws[c2].sig = "COLLECT"

\* C19 as stated: when a join succeeds for a pair whose watcher channel is
\* registered, that watcher receives a paired frame that carries the
\* follower's key, not the initiator's, and stays open and registered in
\* waiting.
C19_PairedToWatcher ==
  [][ \A r \in Alone :
        ( /\ joinTx(r)
          /\ out'.status = 200
          /\ reqs[r].pairId \in DOMAIN waiting ) =>
          LET p == reqs[r].pairId
              w == waiting[p]
          IN /\ ws'[w].frames = Append(ws[w].frames, Frame("paired", reqs[r].key))
             /\ reqs[r].key # reqs[r].initiator
             /\ ws'[w].state = "open"
             /\ p \in DOMAIN waiting' /\ waiting'[p] = w
    ]_vars

\* C20 as stated: a collector channel holds a bundle frame only if a paired
\* frame has been sent to a watcher of the same pair, and a channel becomes
\* a collector only for a pair that has two registered users.
HasPaired(fs) == \E i \in 1..Len(fs) : fs[i].type = "paired"

C20_PairedBeforeBundle ==
  \A c \in Chans :
    ws[c].role = "collector" =>
      /\ HasBundle(ws[c].frames) =>
           \E w \in Chans : /\ ws[w].role = "watcher"
                            /\ ws[w].pairId = ws[c].pairId
                            /\ HasPaired(ws[w].frames)
      /\ Cardinality(members[ws[c].pairId]) = 2

\* C21: in every throttle window of a key, which lasts from the first request
\* counted after the window before it ended until 60 seconds later, at most
\* 60 requests that carry the key reach handleApi; a request of a window that
\* has had its 60 is answered 429, takes no handler slot and changes no table.
C21_ThrottleCap ==
  [][ /\ \A k \in DOMAIN served' : served'[k].n <= THROTTLE_LIMIT
      /\ \A k \in DOMAIN served :
           ( /\ served[k].n = THROTTLE_LIMIT
             /\ now <= served[k].since + THROTTLE_WINDOW_MS
             /\ requestCounts'[k] # requestCounts[k] )
           => ( /\ out'.status = 429
                /\ out'.error = "Too many requests"
                /\ UNCHANGED <<dbVars, reqs>> ) ]_vars

\* a request past the cap was refused, in a window that is not the key's first
C21_Witness ==
  /\ out.status = 429
  /\ \E k \in DOMAIN served :
       /\ served[k].n = THROTTLE_LIMIT
       /\ served[k].since > 0
       /\ requestCounts[k].count > THROTTLE_LIMIT

\* C22: a request to initiate, and any request without an X-Public-Key
\* header, is never answered 429 by the throttle and changes no key's
\* throttle counter.
C22_UnauthenticatedNotThrottled ==
  [][ /\ out'.status = 429 => (out'.of.op # "initiate" /\ out'.of.key # "")
      /\ pairs' # pairs => requestCounts' = requestCounts
      /\ out'.error = "Missing auth headers" => requestCounts' = requestCounts
    ]_vars

\* C23: an upload that passes validation is answered 201 in the very step
\* that stores its entry, without waiting for the push; and no step of the
\* push emitter, whatever its outcome (no subscription, a transport failure,
\* a 410, a failure of its own SELECT or UPDATE), changes a response, a
\* suspended handler or a stored entry.
C23_PushNeverSurfaces ==
  [][ /\ entrySeq' # entrySeq =>
           ( /\ out'.status = 201
             /\ out'.id = entrySeq'
             /\ entrySeq' \in DOMAIN entries' )
      /\ (pushTasks' # pushTasks /\ entrySeq' = entrySeq) =>
           UNCHANGED <<entries, accepted, out, reqs>> ]_vars

\* the transport failed or answered 410 for an upload that was answered 201,
\* the emitter has ended, and the entry is stored as it was sent
C23_Witness ==
  \E s \in pushHist.sent :
    /\ s.answer \in {"failed", "gone"}
    /\ \A t \in pushTasks : t.entry # s.entry
    /\ s.entry \in DOMAIN accepted
    /\ s.entry \in DOMAIN entries
    /\ entries[s.entry].payload = Base64Decode(accepted[s.entry].payload)

C25_AccountDeleted ==
  [][ /\ out'.status = 204 =>
           LET u == out'.of.key
           IN /\ u \notin DOMAIN users'
              /\ \A x \in DOMAIN entries' : entries'[x].author_key # u
              /\ u \in DOMAIN users =>
                   \A x \in Partners(users, users[u].pair_id, u) :
                     /\ x \in DOMAIN users'
                     /\ users'[x] = users[x]
                     /\ StatusBodies(users', users[u].pair_id, x)
                          = {[Http(200, "") EXCEPT !.paired = FALSE]}
      /\ \A x \in DOMAIN entries' : entries'[x].author_key \in DOMAIN users'
      /\ \A r \in Slots :
           (reqs[r].pc = "idle" /\ reqs'[r].pc # "idle" /\ reqs'[r].op # "join")
             => reqs'[r].key \in DOMAIN users ]_vars

\* u has uploaded, was paired with a user that is still registered, and its
\* deleteAccount has just answered 204
C25_Witness ==
  /\ out.status = 204
  /\ out.of.key \notin DOMAIN users
  /\ \E id \in DOMAIN accepted : accepted[id].author = out.of.key
  /\ \E p \in DOMAIN members :
       /\ out.of.key \in members[p]
       /\ \E x \in DOMAIN users : x # out.of.key /\ users[x].pair_id = p

\* C26: in every reachable state the author of every stored entry is a user
\* whose current pairId is the pairId of the entry, also after the author
\* has initiated or joined again.
C26_EntryInAuthorsPair ==
  \A x \in DOMAIN entries :
    /\ entries[x].author_key \in DOMAIN users
    /\ users[entries[x].author_key].pair_id = entries[x].pair_id

\* C27: once an upload by a was answered 201 for the day d, every later
\* fetch by the user that is then the other user of a's pair, with since no
\* later than d, contains the entry as long as it is stored, that is until
\* that partner has acked it.
C27_VisibleUntilAcked ==
  [][ (out'.status = 200 /\ out'.of.op = "fetch") =>
        LET b == out'.of.key
            since == ParseDate(out'.of.since)
        IN \A x \in DOMAIN entries :
             ( /\ x \in DOMAIN accepted
               /\ b \in DOMAIN users
               /\ entries[x].author_key \in DOMAIN users
               /\ entries[x].author_key # b
               /\ users[entries[x].author_key].pair_id = users[b].pair_id
               /\ entries[x].day_id >= since )
             => \E i \in 1..Len(out'.entries) : out'.entries[i].id = x ]_vars

\* C28: every stored entry is eventually removed, by the ack of the partner
\* when it is delivered, by the cleanup of old entries when it is never
\* acked.
C28_EventuallyRemoved ==
  \A x \in 1..MaxEntries : (x \in DOMAIN entries) ~> (x \notin DOMAIN entries)

\* C29: deleteAccount is atomic with respect to the other requests of its
\* user: a deleteAccount that fails has deleted nothing, so that no user
\* row is left behind without its entries.
C29_DeleteAccountAtomic ==
  [][ (out'.of.op = "delete" /\ out'.status \notin {0, 204}) =>
        out'.of.ids = {} ]_vars

\* C30: every join that is answered 400, 404 or 410, the join that loses the
\* compare-and-set on the token included, leaves users, relay_tokens and
\* pairs as they were and sends no frame to any channel.
C30_FailedJoinWritesNothing ==
  [][ out'.status \in {400, 404, 410} =>
        /\ UNCHANGED <<users, relay_tokens, pairs>>
        /\ \A ch \in Chans : ws'[ch].frames = ws[ch].frames ]_vars

\* a join lost the compare-and-set while a channel watched the pair, after
\* its key had moved on to another pair
C30_Witness ==
  /\ out.status = 410
  /\ out.error = "Token already consumed"
  /\ out.of.pairId \in DOMAIN waiting
  /\ out.of.key \in DOMAIN users
  /\ users[out.of.key].pair_id # out.of.pairId

\* C31: no follower is registered through an expired token: whenever the
\* transaction of a join commits (the join answers 200), the token's
\* expires_at is later than the time of the commit, also when the token
\* expires between the precondition check of the join and its consume step.
C31_NoJoinThroughExpiredToken ==
  (out.status = 200 /\ out.of.op = "join")
    => relay_tokens[out.of.token].expires_at > now

\* C32: an entry's fetched_at is set by the first fetch of the partner that
\* returns it and never changes afterwards, also when two fetches of the
\* partner overlap; a fetch changes no other field of any entry.  In steps:
\* a stored entry whose fetched_at is set keeps that value; a fetch that
\* answers with an entry leaves it with fetched_at set; and a step of a
\* fetch adds and removes no entry and changes fetched_at only.
C32_FetchedAtSetOnce ==
  [][ /\ \A x \in DOMAIN entries :
           (x \in DOMAIN entries' /\ entries[x].fetched_at # NoTime)
             => entries'[x].fetched_at = entries[x].fetched_at
      /\ (out'.status = 200 /\ out'.of.op = "fetch")
           => /\ \A i \in 1..Len(out'.entries) :
                   out'.entries[i].id \in DOMAIN entries'
                     => entries'[out'.entries[i].id].fetched_at # NoTime
              /\ DOMAIN entries' = DOMAIN entries
              /\ \A x \in DOMAIN entries :
                   entries'[x] = [entries[x] EXCEPT !.fetched_at = entries'[x].fetched_at]
    ]_vars

\* C33: the cap per day is not strict under concurrency.  Starting from one
\* stored entry of an author for a day, two overlapping uploads can both
\* read the count 1 and both insert, so a state with three stored entries of
\* one author for one day is reachable (the witness).  Without overlap and
\* without deletions the stored count never exceeds two: an upload during
\* whose handling no other upload of its author for its day was accepted
\* leaves at most MAX_BLOBS_PER_DAY entries of its author for its day.
C33_CapHoldsWithoutOverlap ==
  [][ \A r \in Slots :
        (/\ reqs[r].pc = "create_insert"
         /\ out'.status = 201
         /\ out'.of = reqs[r]
         /\ Accepted(reqs[r].key, ParseDate(reqs[r].dayId)) = reqs[r].seen)
          => Cardinality({x \in DOMAIN entries' :
                            /\ entries'[x].author_key = reqs[r].key
                            /\ entries'[x].day_id = ParseDate(reqs[r].dayId)})
               <= MAX_BLOBS_PER_DAY
    ]_vars

\* three entries of A for one day are stored, the last stored by an upload
\* that was in flight while another upload of A for that day was accepted
C33_Witness ==
  /\ CountEntries("A", ParseDate("2026-02-15")) = MAX_BLOBS_PER_DAY + 1
  /\ out.status = 201
  /\ out.of.op = "upload"
  /\ Accepted("A", ParseDate("2026-02-15")) > out.of.seen + 1

\* C34: in every reachable state every channel stored in waiting or in
\* collectors is open: once the close handler of a channel has run the
\* channel is in neither directory, also when it closes while its auth
\* message is still awaiting the lookup of the user.
C34_RegisteredAreOpen ==
  /\ \A p \in DOMAIN waiting : ws[waiting[p]].state = "open"
  /\ \A p \in DOMAIN collectors : ws[collectors[p]].state = "open"

C36_BundleReachesOtherMember ==
  [][ \A ch \in Chans, payload \in BundlePayloads :
        (/\ handleWsBundle(ch, payload)
         /\ ws[ch].role = "watcher"
         /\ ws[ch].pairId \in DOMAIN collectors
         /\ ws[collectors[ws[ch].pairId]].state = "open")
          => LET c == collectors[ws[ch].pairId]
             IN /\ ws[c].key # ws[ch].key
                /\ ws'[c].frames = Append(ws[c].frames, Frame("bundle", payload))
    ]_vars

\* the bundle frames the channels w have received: <<channel, position>>
Deliveries(w) ==
  UNION {{<<ch, i>> : i \in {j \in 1..Len(w[ch].frames) :
                                w[ch].frames[j].type = "bundle"}} : ch \in DOMAIN w}

\* C37: each bundle message accepted from a watcher is delivered to at most
\* one collector channel and at most once, across the live and the buffered
\* path and any interleaving of collector auths, disconnects and the
\* sweeper.  In steps: a step delivers at most one bundle frame; a frame is
\* delivered either by the step that accepts the bundle message with that
\* payload, which then buffers nothing, or out of the bundle buffered for a
\* pair, which that step removes from pendingBundles; and a step that
\* buffers a bundle message delivers no frame.
C37_DeliveredAtMostOnce ==
  [][ LET new == Deliveries(ws') \ Deliveries(ws)
      IN /\ Deliveries(ws) \subseteq Deliveries(ws')
         /\ Cardinality(new) <= 1
         /\ \A d \in new :
              LET payload == ws'[d[1]].frames[d[2]].body
              IN \/ /\ \E ch \in RelayChans : handleWsBundle(ch, payload)
                    /\ pendingBundles' = pendingBundles
                 \/ \E p \in DOMAIN pendingBundles :
                      /\ pendingBundles[p].payload = payload
                      /\ pendingBundles' = MapDelete(pendingBundles, p)
         /\ \A ch \in RelayChans, payload \in BundlePayloads :
              (handleWsBundle(ch, payload) /\ pendingBundles' # pendingBundles)
                => new = {}
    ]_vars

\* two collectors of one pair: the first took the buffered bundle and was
\* closed, the second authenticated after it, is registered and open and
\* has received ready only
C37_Witness ==
  \E c, c2 \in RelayChans :
    /\ c # c2
    /\ ws[c].role = "collector" /\ ws[c2].role = "collector"
    /\ ws[c].pairId = ws[c2].pairId
    /\ ws[c].frames = <<Frame("bundle", "bundle-1")>>
    /\ ws[c].state = "closed"
    /\ ws[c2].state = "open"
    /\ ws[c2].frames = <<Frame("ready", "")>>
    /\ ws[c2].pairId \in DOMAIN collectors
    /\ collectors[ws[c2].pairId] = c2
    /\ ws[c2].pairId \notin DOMAIN pendingBundles

\* C38: the throttle budget of a key k is consumed only by requests validly
\* signed by k: a request that carries X-Public-Key = k with a missing or
\* invalid signature, which verifyRequest rejects, leaves the throttle
\* counters as they were, so that it takes nothing from the requests of k
\* that reach a handler in the window.
C38_BudgetOnlyBySignedRequests ==
  [][ out'.error \in {"Missing auth headers", "Invalid signature"}
        => requestCounts' = requestCounts ]_vars

\* C39: a 410 from the push transport clears only the subscription that was
\* rejected: when the recipient has registered a new subscription between
\* the lookup of the emitter and its handling of the 410, the new
\* subscription is still stored afterwards.
C39_ClearsOnlyRejected ==
  [][ \A t \in pushTasks, ok \in BOOLEAN :
        (/\ notifyPartnerClear(t, ok)
         /\ t.partner \in DOMAIN users
         /\ users[t.partner].push_endpoint \notin {Null, t.endpoint})
          => users'[t.partner] = users[t.partner]
    ]_vars

\* the uploads of item i that the server has answered 201
AcceptedPosts(acc, i) ==
  Cardinality({x \in DOMAIN acc : acc[x].payload = ItemPayload(i)})

\* C40: each item enqueued in the outbox leads to at most one accepted POST
\* /api/entries, and an item is removed from the outbox only after a
\* successful response to a POST of it, also when flushOutbox runs
\* concurrently with itself.
C40_OutboxItemPostedOnce ==
  [][ /\ \A i \in Items : AcceptedPosts(accepted', i) <= 1
      /\ \A i \in outbox \ outbox' :
           /\ AcceptedPosts(accepted, i) >= 1
           /\ \E f \in Flushes :
                flushes[f].pc = "remove" /\ Head(flushes[f].items) = i
    ]_vars

====
